---- MODULE Spec2Model ----
(***************************************************************************)
(* Okta -> Terraform generators: the paginated, rate-limited fetch loops   *)
(* of admin-roles-resources-generator/main.py and of                        *)
(* group-and-group-rules-generator/main.py, the orchestration of the       *)
(* admin-roles main(), and the member-URL substitution.                    *)
(*                                                                         *)
(* A fetch loop is modelled request by request: one action is one          *)
(* requests.get call together with everything the code does with the       *)
(* answer up to the next requests.get (or up to the return of the loop).   *)
(* Time is counted in ticks, TicksPerSecond ticks to the second, because   *)
(* time.time() is fractional while x-rate-limit-reset is whole seconds.    *)
(***************************************************************************)
EXTENDS Integers, Sequences, FiniteSets, TLC

\* ---------------------------------------------------------------- bounds
MaxPages == 3
MaxPerPage == 2
TicksPerSecond == 2
MaxMainPages == 2
MaxMainFaults == 2
MaxFetchFaults == 4

\* ------------------------------------------------------- program constants
DefaultRetryCount == 3
DefaultSleepSeconds == 60

\* URLs are page numbers; NoUrl is the absent (None) endpoint.
NoUrl == 0

\* ------------------------------------------------------------------ server
\* A collection is a sequence of pages; items are numbered in server order.
RECURSIVE PagesOf(_, _)
PagesOf(sizes, first) ==
    IF sizes = <<>> THEN <<>>
    ELSE <<[i \in 1..Head(sizes) |-> first + i - 1]>>
         \o PagesOf(Tail(sizes), first + Head(sizes))

Layouts ==
    UNION {{PagesOf(sz, 1) : sz \in [1..p -> 0..MaxPerPage]} : p \in 1..MaxPages}

RECURSIVE Flatten(_)
Flatten(pages) ==
    IF pages = <<>> THEN <<>> ELSE Head(pages) \o Flatten(Tail(pages))

Prefix(pages, k) == Flatten(SubSeq(pages, 1, k))

MaxItems == MaxPages * MaxPerPage

AdminBodyLinkFns == {"fetch_roles", "fetch_resource_sets"}
AdminApiDataFns == AdminBodyLinkFns \cup {"fetch_apps"}
AdminDirectFns == {"fetch_all_groups", "fetch_all_users"}
AdminFns == AdminApiDataFns \cup AdminDirectFns
GroupGenFns == {"fetch_okta_groups", "fetch_okta_group_rules"}
OldMainFns == {"paginated_get"}
FetchFns == AdminFns \cup GroupGenFns \cup OldMainFns

\* The Link header the server sends with page k of P: a self entry, and a
\* next entry while a further page exists.
LinkHeader(k, P) ==
    <<[url |-> k, rel |-> "self"]>>
    \o (IF k < P THEN <<[url |-> k + 1, rel |-> "next"]>> ELSE <<>>)

\* The x-rate-limit-reset header of a 429: absent, or present with the value
\* int(reset) - time.time() given in ticks.
NoReset == [present |-> FALSE, diff |-> 0]
\* The values tried: the reset time passed, now, less than a second ahead,
\* one second ahead, more than a second ahead.
ResetDiffs == {-1, 0, 1, TicksPerSecond, TicksPerSecond + 1}
ResetHeaders ==
    {NoReset} \cup {[present |-> TRUE, diff |-> d] : d \in ResetDiffs}

Page200(pages, k) ==
    [status |-> 200, items |-> pages[k],
     next |-> IF k < Len(pages) THEN k + 1 ELSE NoUrl,
     link |-> LinkHeader(k, Len(pages)), reset |-> NoReset]

\* status 0 stands for a transport failure: requests.get raises and there is
\* no response object.
Faults ==
    {[status |-> 429, items |-> <<>>, next |-> NoUrl, link |-> <<>>,
      reset |-> h] : h \in ResetHeaders}
    \cup {[status |-> s, items |-> <<>>, next |-> NoUrl, link |-> <<>>,
           reset |-> NoReset] : s \in {500, 0}}

\* The answer of an endpoint without pagination whose JSON body is data.
Item200(data) ==
    [status |-> 200, items |-> data, next |-> NoUrl, link |-> <<>>,
     reset |-> NoReset]

Transport(resp) == resp.status = 0

NoResp ==
    [status |-> -1, items |-> <<>>, next |-> NoUrl, link |-> <<>>,
     reset |-> NoReset]

\* ------------------------------------------------------------------- state
VARIABLES
    fn,           \* the fetch function being executed
    server,       \* the pages of the collection it reads
    gtype,        \* the "type" attribute of each group item
    labels,       \* the label (for a group: profile.name) of each item
    endpoint,     \* the loop variable endpoint / url
    acc,          \* the list the loop extends (roles, groups, apps, ...)
    retry_count,  \* retry_count of the pending get_api_data call
    pc,           \* "request", "returned" or "raised" ("call": a tool
                  \* that has not run yet)
    result,       \* the value returned by the fetch function
    requested,    \* history: every URL handed to requests.get, in order
    lastResp,     \* history: the answer to the last request
    seen,         \* history: the statuses answered so far
    slept,        \* history: the time.sleep calls made after the last request
    faultsLeft,   \* environment: answers other than 200 the server may still give
    stage,        \* position of main() ("none" when a fetch runs on its own)
    roles, resource_sets, apps, groups, users,   \* locals of main()
    dgroups, dusers,                  \* groups, users of debug_with_pandas
    idx,                              \* position of the current for loop
    group_roles_by_group, user_roles_by_user,
    written,      \* the sections appended to the output .tf file, in order
    member, group_map, user_map, app_map, okta_domain,
                  \* the arguments of substitute_member
    outs,         \* the values substitute_member returned, in order
    label,        \* the argument of normalize_resource_name, sanitize_name
    normalized,   \* the value normalize_resource_name returned
    sanitized,    \* the value sanitize_name (old_main) returned
    new_iam_roles, legacy_roles, roles_dict,      \* locals of old_main main()
    content,      \* the okta_group resources of the file generate_move_blocks reads
    output_lines, \* the moved blocks it writes
    policies,     \* the policies a policy generator was given
    policy_pos,   \* the place of its for loop over them
    global_group_ids, resource_blocks, data_blocks   \* its locals

fetchVars == <<endpoint, acc, retry_count, pc, result>>
histVars == <<requested, lastResp, seen, slept, faultsLeft>>
envVars == <<server, gtype, labels>>
mainVars == <<stage, roles, resource_sets, apps, groups, users, dgroups,
              dusers, idx, group_roles_by_group, user_roles_by_user, written>>

policyVars == <<policies, policy_pos, global_group_ids, resource_blocks,
                data_blocks>>

toolVars == <<sanitized, new_iam_roles, legacy_roles, roles_dict, content,
              output_lines, policyVars>>

subVars == <<member, group_map, user_map, app_map, okta_domain, outs,
             label, normalized, toolVars>>

vars == <<fn, envVars, fetchVars, histVars, mainVars, subVars>>

\* What the server may answer to a request whose 200 answer is ok.
ServerAnswers(ok) == {ok} \cup (IF faultsLeft > 0 THEN Faults ELSE {})

GroupTypes == {"OKTA_GROUP", "APP_GROUP"}

\* ------------------------------------------------------------ get_api_data
\* The argument of time.sleep after a 429, in ticks.
sleep_time(reset) ==
    IF reset.present
    THEN IF reset.diff < 0 THEN 1 * TicksPerSecond ELSE reset.diff
    ELSE DefaultSleepSeconds * TicksPerSecond

\* get_api_data without the time.sleep calls.
get_api_data_no_sleep(resp, rc) ==
    IF resp.status = 200
    THEN [retry |-> FALSE, none |-> FALSE, sleeps |-> <<>>]
    ELSE IF resp.status = 429
    THEN [retry |-> rc > 0, none |-> TRUE, sleeps |-> <<>>]
    ELSE [retry |-> FALSE, none |-> TRUE, sleeps |-> <<>>]

\* get_api_data giving up one retry early (retry_count > 1).
get_api_data_one_less(resp, rc) ==
    IF resp.status = 200
    THEN [retry |-> FALSE, none |-> FALSE, sleeps |-> <<>>]
    ELSE IF resp.status = 429
    THEN [retry |-> rc > 1, none |-> TRUE, sleeps |-> <<sleep_time(resp.reset)>>]
    ELSE [retry |-> FALSE, none |-> TRUE, sleeps |-> <<>>]

\* get_api_data retrying once more (retry_count >= 0).
get_api_data_one_more(resp, rc) ==
    IF resp.status = 200
    THEN [retry |-> FALSE, none |-> FALSE, sleeps |-> <<>>]
    ELSE IF resp.status = 429
    THEN [retry |-> rc >= 0, none |-> TRUE, sleeps |-> <<sleep_time(resp.reset)>>]
    ELSE [retry |-> FALSE, none |-> TRUE, sleeps |-> <<>>]

\* One activation of get_api_data with its answer: what it sleeps, whether
\* it calls itself again (retry) or returns, and whether the data it returns
\* is None.
get_api_data(resp, rc) ==
    IF resp.status = 200
    THEN [retry |-> FALSE, none |-> FALSE, sleeps |-> <<>>]
    ELSE IF resp.status = 429
    THEN [retry |-> rc > 0, none |-> TRUE, sleeps |-> <<sleep_time(resp.reset)>>]
    ELSE [retry |-> FALSE, none |-> TRUE, sleeps |-> <<>>]

\* re.findall(r'<([^>]+)>;\s*rel="next"', link_header), then links[0].
RECURSIVE FirstNext(_)
FirstNext(link) ==
    IF link = <<>> THEN NoUrl
    ELSE IF Head(link).rel = "next" THEN Head(link).url
    ELSE FirstNext(Tail(link))

\* for link in links: if 'rel="next"' in link: url = link[...]  (the last
\* matching entry wins).
RECURSIVE LastNext(_)
LastNext(link) ==
    IF link = <<>> THEN NoUrl
    ELSE IF LastNext(Tail(link)) # NoUrl THEN LastNext(Tail(link))
    ELSE IF Head(link).rel = "next" THEN Head(link).url
    ELSE NoUrl

\* The list comprehension without its condition.
EveryGroup(items, types) == items

\* [g for g in data if g.get("type") == "OKTA_GROUP"]
RECURSIVE OktaGroupsOnly(_, _)
OktaGroupsOnly(items, types) ==
    IF items = <<>> THEN <<>>
    ELSE (IF types[Head(items)] = "OKTA_GROUP" THEN <<Head(items)>> ELSE <<>>)
         \o OktaGroupsOnly(Tail(items), types)

\* ------------------------------------------------------- loop bookkeeping
Sent(resp, sl) ==
    /\ requested' = Append(requested, endpoint)
    /\ lastResp' = resp
    /\ seen' = seen \cup {resp.status}
    /\ slept' = sl
    /\ faultsLeft' = IF resp.status = 200 THEN faultsLeft ELSE faultsLeft - 1

\* requests.get raised, but the exception is swallowed and the loop ends
\* with what it has.
RaiseCaught ==
    /\ pc' = "returned"
    /\ result' = acc
    /\ UNCHANGED <<endpoint, acc, retry_count>>

\* requests.get raised: the exception leaves the function.
Raise ==
    /\ pc' = "raised"
    /\ UNCHANGED <<endpoint, acc, retry_count, result>>

\* break that throws the accumulated items away.
BreakEmpty ==
    /\ pc' = "returned"
    /\ result' = <<>>
    /\ UNCHANGED <<endpoint, acc, retry_count>>

\* break: the loop ends and the function returns what it has.
Break ==
    /\ pc' = "returned"
    /\ result' = acc
    /\ UNCHANGED <<endpoint, acc, retry_count>>

\* the body ran to its end: extend the list, move to the next URL, and
\* leave the loop when there is none.
Advance(newAcc, nextUrl) ==
    /\ acc' = newAcc
    /\ endpoint' = nextUrl
    /\ retry_count' = DefaultRetryCount
    /\ IF nextUrl = NoUrl
       THEN pc' = "returned" /\ result' = newAcc
       ELSE pc' = "request" /\ result' = result

\* get_api_data called itself: same URL, one retry less.
Retry ==
    /\ retry_count' = retry_count - 1
    /\ UNCHANGED <<endpoint, acc, pc, result>>

\* ------------------------------------------------- admin-roles fetch loops
\* data.get("roles", []) and data.get("_links", {}).get("next", {}).get("href");
\* the body of a 200 is a non-empty dict, so "not data" is false for it.
BodyLinkIteration(resp) ==
    IF Transport(resp) THEN Raise /\ Sent(resp, <<>>)
    ELSE LET r == get_api_data(resp, retry_count) IN
         /\ Sent(resp, r.sleeps)
         /\ IF r.retry THEN Retry
            ELSE IF r.none THEN Break
            ELSE Advance(acc \o resp.items, resp.next)

fetch_roles ==
    /\ fn = "fetch_roles" /\ pc = "request"
    /\ \E resp \in ServerAnswers(Page200(server, endpoint)) : BodyLinkIteration(resp)
    /\ UNCHANGED <<fn, envVars, mainVars, subVars>>

fetch_resource_sets ==
    /\ fn = "fetch_resource_sets" /\ pc = "request"
    /\ \E resp \in ServerAnswers(Page200(server, endpoint)) : BodyLinkIteration(resp)
    /\ UNCHANGED <<fn, envVars, mainVars, subVars>>

\* fetch_apps breaking on None only, so that an empty page is followed.
fetch_apps_follows_empty_page ==
    /\ fn = "fetch_apps" /\ pc = "request"
    /\ \E resp \in ServerAnswers(Page200(server, endpoint)) :
         IF Transport(resp) THEN Raise /\ Sent(resp, <<>>)
         ELSE LET r == get_api_data(resp, retry_count) IN
              /\ Sent(resp, r.sleeps)
              /\ IF r.retry THEN Retry
                 ELSE IF r.none THEN Break
                 ELSE Advance(acc \o resp.items, FirstNext(resp.link))
    /\ UNCHANGED <<fn, envVars, mainVars, subVars>>

\* data is the JSON list itself: "not data" is true for None and for [].
fetch_apps ==
    /\ fn = "fetch_apps" /\ pc = "request"
    /\ \E resp \in ServerAnswers(Page200(server, endpoint)) :
         IF Transport(resp) THEN Raise /\ Sent(resp, <<>>)
         ELSE LET r == get_api_data(resp, retry_count) IN
              /\ Sent(resp, r.sleeps)
              /\ IF r.retry THEN Retry
                 ELSE IF r.none \/ resp.items = <<>> THEN Break
                 ELSE Advance(acc \o resp.items, FirstNext(resp.link))
    /\ UNCHANGED <<fn, envVars, mainVars, subVars>>

\* requests.get directly: 200 extends and follows the Link header, every
\* other status (429 included) prints and breaks.
DirectIteration(resp) ==
    IF Transport(resp) THEN Raise /\ Sent(resp, <<>>)
    ELSE /\ Sent(resp, <<>>)
         /\ IF resp.status = 200
            THEN Advance(acc \o resp.items, FirstNext(resp.link))
            ELSE Break

fetch_all_groups ==
    /\ fn = "fetch_all_groups" /\ pc = "request"
    /\ \E resp \in ServerAnswers(Page200(server, endpoint)) : DirectIteration(resp)
    /\ UNCHANGED <<fn, envVars, mainVars, subVars>>

fetch_all_users ==
    /\ fn = "fetch_all_users" /\ pc = "request"
    /\ \E resp \in ServerAnswers(Page200(server, endpoint)) : DirectIteration(resp)
    /\ UNCHANGED <<fn, envVars, mainVars, subVars>>

\* ------------------------------------------- group generator fetch loops
\* a status other than 200 returns [] at once.
ReturnEmpty ==
    /\ pc' = "returned"
    /\ result' = <<>>
    /\ UNCHANGED <<endpoint, acc, retry_count>>

fetch_okta_groups ==
    /\ fn = "fetch_okta_groups" /\ pc = "request"
    /\ \E resp \in ServerAnswers(Page200(server, endpoint)) :
         IF Transport(resp) THEN Raise /\ Sent(resp, <<>>)
         ELSE /\ Sent(resp, <<>>)
              /\ IF resp.status # 200 THEN ReturnEmpty
                 ELSE Advance(acc \o OktaGroupsOnly(resp.items, gtype),
                              LastNext(resp.link))
    /\ UNCHANGED <<fn, envVars, mainVars, subVars>>

fetch_okta_group_rules ==
    /\ fn = "fetch_okta_group_rules" /\ pc = "request"
    /\ \E resp \in ServerAnswers(Page200(server, endpoint)) :
         IF Transport(resp) THEN Raise /\ Sent(resp, <<>>)
         ELSE /\ Sent(resp, <<>>)
              /\ IF resp.status # 200 THEN ReturnEmpty
                 ELSE Advance(acc \o resp.items, LastNext(resp.link))
    /\ UNCHANGED <<fn, envVars, mainVars, subVars>>

\* -------------------------------------------------- old_main fetch loop
\* resp.raise_for_status() raises HTTPError for a status from 400 to 599.
RaisesForStatus(status) == 400 <= status /\ status < 600

\* The except clause giving the list built so far to the caller.
ExceptKeepsResults ==
    /\ pc' = "returned"
    /\ result' = acc
    /\ UNCHANGED <<endpoint, acc, retry_count>>

\* try: resource_sets = get_resource_sets_new(...) except requests.HTTPError:
\* resource_sets = []  (the same for the new IAM roles and the legacy
\* roles): the results list of paginated_get is lost with its frame.
ExceptHTTPError ==
    /\ pc' = "returned"
    /\ result' = <<>>
    /\ UNCHANGED <<endpoint, acc, retry_count>>

\* One requests.get of paginated_get as main() calls it: a transport
\* failure is no HTTPError and leaves main(); raise_for_status() raises
\* HTTPError, which main() catches; otherwise the items are added and the
\* last rel="next" part of the Link header is followed.
paginated_get ==
    /\ fn = "paginated_get" /\ pc = "request"
    /\ \E resp \in ServerAnswers(Page200(server, endpoint)) :
         IF Transport(resp) THEN Raise /\ Sent(resp, <<>>)
         ELSE /\ Sent(resp, <<>>)
              /\ IF RaisesForStatus(resp.status) THEN ExceptHTTPError
                 ELSE Advance(acc \o resp.items, LastNext(resp.link))
    /\ UNCHANGED <<fn, envVars, mainVars, subVars>>

\* ------------------------------------------------ normalize_resource_name
\* A label is a sequence of characters.
LowerLetters ==
    {"a", "c", "d", "e", "g", "i", "m", "n", "o", "r", "s", "t", "u"}
Digits == {"0", "1", "2", "3", "4", "5", "6", "7", "8", "9"}

\* str.lower(), character by character
Lower(c) == IF c = "A" THEN "a" ELSE IF c = "T" THEN "t" ELSE c

\* A character the pattern [^a-z0-9_] does not match.
InClass(c) == c \in LowerLetters \cup Digits \cup {"_"}

\* The rule of collapsing: each maximal run of characters outside
\* [a-z0-9_] becomes one underscore.
RECURSIVE CollapseRuns(_, _)
CollapseRuns(s, inRun) ==
    IF s = <<>> THEN <<>>
    ELSE IF InClass(Head(s)) THEN <<Head(s)>> \o CollapseRuns(Tail(s), FALSE)
    ELSE (IF inRun THEN <<>> ELSE <<"_">>) \o CollapseRuns(Tail(s), TRUE)

\* normalize_resource_name with the rule of collapsing in place of its
\* replace and re.sub.
normalize_collapsing_runs(lbl) ==
    LET lowered == [i \in 1..Len(lbl) |-> Lower(lbl[i])]
        collapsed == CollapseRuns(lowered, FALSE) IN
    IF collapsed # <<>> /\ Head(collapsed) \in Digits
    THEN <<"_">> \o collapsed ELSE collapsed

normalize_resource_name(lbl) ==
    LET lowered == [i \in 1..Len(lbl) |-> Lower(lbl[i])]
        spaced == [i \in 1..Len(lbl) |->
                     IF lowered[i] = " " THEN "_" ELSE lowered[i]]
        stripped == SelectSeq(spaced, InClass) IN
    IF stripped # <<>> /\ Head(stripped) \in Digits
    THEN <<"_">> \o stripped ELSE stripped

\* A character the pattern [^a-z0-9_-] does not match.
InNameClass(c) == InClass(c) \/ c = "-"

\* re.sub(r"[^a-z0-9_-]+", "_", out): each maximal run of matching
\* characters is replaced by one underscore.
RECURSIVE SubRuns(_, _)
SubRuns(s, inRun) ==
    IF s = <<>> THEN <<>>
    ELSE IF InNameClass(Head(s)) THEN <<Head(s)>> \o SubRuns(Tail(s), FALSE)
    ELSE (IF inRun THEN <<>> ELSE <<"_">>) \o SubRuns(Tail(s), TRUE)

\* sanitize_name of old_main.py
sanitize_name(original_str) ==
    SubRuns([i \in 1..Len(original_str) |-> Lower(original_str[i])], FALSE)

\* Inputs of normalize_resource_name and sanitize_name: every label of up
\* to MaxLabelLen characters, and the label '  Admin Team!! '.
MaxLabelLen == 3
Chars == {"A", "a", "1", "_", "-", " ", "!"}
AdminTeam ==
    <<" ", " ", "A", "d", "m", "i", "n", " ", "T", "e", "a", "m", "!", "!",
      " ">>
Labels ==
    UNION {[1..n -> Chars] : n \in 0..MaxLabelLen} \cup {AdminTeam}

\* The value of normalized before the function has returned.
NoName == <<"None">>

\* ------------------------------------------------------ substitute_member
\* A string is a sequence of tokens; a token is a piece of text the code
\* never looks into ("/" and the double quote are tokens of their own).
Slash == "/"
Quote == "\""
EscapedQuote == "\\\""
OrgUrl == "${local.org_url}"

\* sub in s
Contains(s, sub) ==
    \E i \in 1..(Len(s) - Len(sub) + 1) : SubSeq(s, i, i + Len(sub) - 1) = sub

\* s.endswith(suf)
EndsWith(s, suf) ==
    /\ Len(s) >= Len(suf)
    /\ SubSeq(s, Len(s) - Len(suf) + 1, Len(s)) = suf

\* s.replace(old, new), old not empty: leftmost occurrences, not overlapping
RECURSIVE Replace(_, _, _)
Replace(s, old, new) ==
    IF s = <<>> THEN <<>>
    ELSE IF Len(s) >= Len(old) /\ SubSeq(s, 1, Len(old)) = old
    THEN new \o Replace(SubSeq(s, Len(old) + 1, Len(s)), old, new)
    ELSE <<Head(s)>> \o Replace(Tail(s), old, new)

ApiPath(kind) == <<Slash, "api", Slash, "v1", Slash, kind>>

\* The end of the run of [^/] tokens that starts at position i.
RECURSIVE RunEnd(_, _)
RunEnd(s, i) ==
    IF i < Len(s) /\ s[i + 1] # Slash THEN RunEnd(s, i + 1) ELSE i

\* Positions where r'/api/v1/<kind>/([^/]+)' matches.
IdMatches(s, kind) ==
    {i \in 1..Len(s) :
        /\ i + 7 <= Len(s)
        /\ SubSeq(s, i, i + 6) = ApiPath(kind) \o <<Slash>>
        /\ s[i + 7] # Slash}

Min(S) == CHOOSE x \in S : \A y \in S : x <= y

\* re.search(r'/api/v1/<kind>/([^/]+)(/.*)?$', member): group(1), group(2)
SearchWithTrailing(s, kind) ==
    LET M == IdMatches(s, kind) IN
    IF M = {} THEN [found |-> FALSE, id |-> <<>>, extra |-> <<>>]
    ELSE LET i == Min(M) j == RunEnd(s, i + 7) IN
         [found |-> TRUE, id |-> SubSeq(s, i + 7, j),
          extra |-> SubSeq(s, j + 1, Len(s))]

\* re.search(r'/api/v1/<kind>/([^/]+)$', member): group(1)
SearchAtEnd(s, kind) ==
    LET M == {i \in IdMatches(s, kind) : RunEnd(s, i + 7) = Len(s)} IN
    IF M = {} THEN [found |-> FALSE, id |-> <<>>, extra |-> <<>>]
    ELSE [found |-> TRUE, id |-> SubSeq(s, Min(M) + 7, Len(s)),
          extra |-> <<>>]

\* '${local.org_url}/api/v1/<kind>/' + source + normalized + '.id}'
Reference(kind, source, name) ==
    <<OrgUrl>> \o ApiPath(kind) \o <<Slash, source>>
    \o name \o <<".id}">>

\* What a call returns in place of a value when it raises TypeError.
TypeError == <<"TypeError">>

\* bool(app_map): None and the empty table are false.
Truthy(amap) == amap.given /\ DOMAIN amap.map # {}

\* aid in app_map, which raises TypeError when app_map is None.
InAppMap(id, amap) ==
    [raises |-> ~amap.given, value |-> amap.given /\ id \in DOMAIN amap.map]

\* aid in app_map with no test of app_map before it.
UnguardedLookup(id, amap) == InAppMap(id, amap)

\* app_map and aid in app_map: the right side is evaluated only when the
\* left side is true.
GuardedLookup(id, amap) ==
    IF Truthy(amap) THEN InAppMap(id, amap)
    ELSE [raises |-> FALSE, value |-> FALSE]

\* substitute_member without the trailing segment of a group or app URL.
substitute_member_drops_extra(m, gmap, umap, amap, domain) ==
    IF Contains(m, <<"apps", "?filter">>)
    THEN Replace(Replace(m, <<"https://">> \o domain, <<OrgUrl>>),
                 <<Quote>>, <<EscapedQuote>>)
    ELSE IF EndsWith(m, ApiPath("groups")) THEN <<OrgUrl>> \o ApiPath("groups")
    ELSE IF EndsWith(m, ApiPath("users")) THEN <<OrgUrl>> \o ApiPath("users")
    ELSE IF EndsWith(m, ApiPath("apps")) THEN <<OrgUrl>> \o ApiPath("apps")
    ELSE LET mg == SearchWithTrailing(m, "groups")
             mu == SearchAtEnd(m, "users")
             ma == SearchWithTrailing(m, "apps") IN
         IF mg.found /\ mg.id \in DOMAIN gmap
         THEN Reference("groups", "${data.okta_group.", gmap[mg.id])
         ELSE IF mu.found /\ mu.id \in DOMAIN umap
         THEN Reference("users", "${data.okta_user.", umap[mu.id])
         ELSE IF ma.found /\ GuardedLookup(ma.id, amap).raises THEN TypeError
         ELSE IF ma.found /\ GuardedLookup(ma.id, amap).value
         THEN Reference("apps", "${data.okta_app.", amap.map[ma.id])
         ELSE Replace(m, <<Quote>>, <<EscapedQuote>>)

\* substitute_member returning the value untouched at its last line.
substitute_member_no_escape(m, gmap, umap, amap, domain) ==
    IF Contains(m, <<"apps", "?filter">>)
    THEN Replace(Replace(m, <<"https://">> \o domain, <<OrgUrl>>),
                 <<Quote>>, <<EscapedQuote>>)
    ELSE IF EndsWith(m, ApiPath("groups")) THEN <<OrgUrl>> \o ApiPath("groups")
    ELSE IF EndsWith(m, ApiPath("users")) THEN <<OrgUrl>> \o ApiPath("users")
    ELSE IF EndsWith(m, ApiPath("apps")) THEN <<OrgUrl>> \o ApiPath("apps")
    ELSE LET mg == SearchWithTrailing(m, "groups")
             mu == SearchAtEnd(m, "users")
             ma == SearchWithTrailing(m, "apps") IN
         IF mg.found /\ mg.id \in DOMAIN gmap
         THEN Reference("groups", "${data.okta_group.", gmap[mg.id]) \o mg.extra
         ELSE IF mu.found /\ mu.id \in DOMAIN umap
         THEN Reference("users", "${data.okta_user.", umap[mu.id])
         ELSE IF ma.found /\ GuardedLookup(ma.id, amap).raises THEN TypeError
         ELSE IF ma.found /\ GuardedLookup(ma.id, amap).value
         THEN Reference("apps", "${data.okta_app.", amap.map[ma.id]) \o ma.extra
         ELSE m

\* substitute_member trying the id patterns before the collection roots.
substitute_member_ids_first(m, gmap, umap, amap, domain) ==
    IF Contains(m, <<"apps", "?filter">>)
    THEN Replace(Replace(m, <<"https://">> \o domain, <<OrgUrl>>),
                 <<Quote>>, <<EscapedQuote>>)
    ELSE LET mg == SearchWithTrailing(m, "groups")
             mu == SearchAtEnd(m, "users")
             ma == SearchWithTrailing(m, "apps") IN
         IF mg.found /\ mg.id \in DOMAIN gmap
         THEN Reference("groups", "${data.okta_group.", gmap[mg.id]) \o mg.extra
         ELSE IF mu.found /\ mu.id \in DOMAIN umap
         THEN Reference("users", "${data.okta_user.", umap[mu.id])
         ELSE IF ma.found /\ GuardedLookup(ma.id, amap).raises THEN TypeError
         ELSE IF ma.found /\ GuardedLookup(ma.id, amap).value
         THEN Reference("apps", "${data.okta_app.", amap.map[ma.id]) \o ma.extra
         ELSE IF EndsWith(m, ApiPath("groups")) THEN <<OrgUrl>> \o ApiPath("groups")
         ELSE IF EndsWith(m, ApiPath("users")) THEN <<OrgUrl>> \o ApiPath("users")
         ELSE IF EndsWith(m, ApiPath("apps")) THEN <<OrgUrl>> \o ApiPath("apps")
         ELSE Replace(m, <<Quote>>, <<EscapedQuote>>)

substitute_member(m, gmap, umap, amap, domain) ==
    IF Contains(m, <<"apps", "?filter">>)
    THEN Replace(Replace(m, <<"https://">> \o domain, <<OrgUrl>>),
                 <<Quote>>, <<EscapedQuote>>)
    ELSE IF EndsWith(m, ApiPath("groups")) THEN <<OrgUrl>> \o ApiPath("groups")
    ELSE IF EndsWith(m, ApiPath("users")) THEN <<OrgUrl>> \o ApiPath("users")
    ELSE IF EndsWith(m, ApiPath("apps")) THEN <<OrgUrl>> \o ApiPath("apps")
    ELSE LET mg == SearchWithTrailing(m, "groups")
             mu == SearchAtEnd(m, "users")
             ma == SearchWithTrailing(m, "apps") IN
         IF mg.found /\ mg.id \in DOMAIN gmap
         THEN Reference("groups", "${data.okta_group.", gmap[mg.id]) \o mg.extra
         ELSE IF mu.found /\ mu.id \in DOMAIN umap
         THEN Reference("users", "${data.okta_user.", umap[mu.id])
         ELSE IF ma.found /\ GuardedLookup(ma.id, amap).raises THEN TypeError
         ELSE IF ma.found /\ GuardedLookup(ma.id, amap).value
         THEN Reference("apps", "${data.okta_app.", amap.map[ma.id]) \o ma.extra
         ELSE Replace(m, <<Quote>>, <<EscapedQuote>>)

\* The text that opens the reference to an object of a kind.
OpenOf(kind) ==
    IF kind = "groups" THEN "${data.okta_group."
    ELSE IF kind = "users" THEN "${data.okta_user."
    ELSE "${data.okta_app."

Tokens(s) == {s[i] : i \in 1..Len(s)}

\* Inputs of substitute_member.
MaxCalls == 2
Kinds == {"groups", "users", "apps"}
Hosts == {<<"https://", "dom">>, <<"https://", "other">>, <<OrgUrl>>}
Ids == {<<"g1">>, <<"u1">>, <<"a1">>, <<"zz">>, <<"z", Quote>>}
Trailing ==
    {<<>>, <<Slash, "users">>, <<Slash, "roles", Slash, "zz">>}
Queries == {<<"?filter", "=", Quote, "x", Quote>>, <<"?limit">>}

IdUrl(host, kind, id, extra) == host \o ApiPath(kind) \o <<Slash>> \o id \o extra

\* Values of no shape the function knows: the empty string, plain text and
\* the URL of an object of another collection.
Unrecognized ==
    {<<>>, <<"plain">>, <<Quote, "plain", Quote>>,
     <<"https://", "dom", Slash, "api", Slash, "v1", Slash, "roles",
       Slash, "g1">>}

\* A URL that ends in a collection root and has a known group id before it.
RootAfterId(host, kind) == IdUrl(host, "groups", <<"g1">>, ApiPath(kind))

Members ==
    {IdUrl(h, k, id, e) : h \in Hosts, k \in Kinds, id \in Ids, e \in Trailing}
    \cup {h \o ApiPath(k) : h \in Hosts, k \in Kinds}
    \cup {h \o ApiPath(k) \o q : h \in Hosts, k \in Kinds, q \in Queries}
    \cup Unrecognized
    \cup {RootAfterId(h, k) : h \in Hosts, k \in Kinds}

NameTables(id, name) == {[i \in {} |-> <<>>], [i \in {id} |-> name]}
NoAppMap == [given |-> FALSE, map |-> [i \in {} |-> <<>>]]

\* Nothing of old_main, of the move block generator or of a policy
\* generator has run.
PolicyIdle ==
    /\ policies = <<>> /\ policy_pos = 1
    /\ global_group_ids = {}
    /\ resource_blocks = <<>> /\ data_blocks = <<>>

ToolIdle ==
    /\ sanitized = NoName
    /\ new_iam_roles = <<>> /\ legacy_roles = <<>>
    /\ roles_dict = [i \in {} |-> <<>>]
    /\ content = <<>> /\ output_lines = <<>>
    /\ PolicyIdle

SubIdle ==
    /\ member = <<>>
    /\ group_map = [i \in {} |-> <<>>]
    /\ user_map = [i \in {} |-> <<>>]
    /\ app_map = NoAppMap
    /\ okta_domain = <<>>
    /\ outs = <<>>
    /\ label = <<>>
    /\ normalized = NoName
    /\ ToolIdle

\* ------------------------------------------------------- ids and labels
\* main() reads collections of at most nine items.
DigitOf(i) == <<"1", "2", "3", "4", "5", "6", "7", "8", "9">>[i]

\* The id of item i of a collection, as the server spells it.
IdText(kind, i) ==
    (IF kind = "groups" THEN <<"0", "0", "g">>
     ELSE IF kind = "users" THEN <<"0", "0", "u">>
     ELSE IF kind = "apps" THEN <<"0", "o", "a">>
     ELSE IF kind = "roles" THEN <<"c", "r">>
     ELSE <<"i", "a", "m">>) \o <<DigitOf(i)>>

\* An item without the key "label", and an item with it.
NoLabel == [given |-> FALSE, text |-> <<>>]
Given(text) == [given |-> TRUE, text |-> text]

LabelledKinds == {"roles", "resource_sets", "apps", "groups"}
MainItems == 1..MaxMainPages

\* Every second item has a label that differs from the one before it only
\* in case and in the character between the words.
Colliding ==
    [k \in LabelledKinds |-> [i \in MainItems |->
        IF i % 2 = 1 THEN Given(<<"A", " ", "T">>)
        ELSE Given(<<"a", "_", "t">>)]]

\* The first item of each collection has a label of punctuation only.
Punctuation ==
    [k \in LabelledKinds |-> [i \in MainItems |->
        IF i = 1 THEN Given(<<"!", "!">>) ELSE Given(<<"T", DigitOf(i)>>)]]

\* The first role, resource set and group have no label.
Unlabelled ==
    [k \in LabelledKinds |-> [i \in MainItems |->
        IF i = 1 /\ k # "apps" THEN NoLabel ELSE Given(<<"T", DigitOf(i)>>)]]

Labelings == {Colliding, Punctuation, Unlabelled}

\* ------------------------------------------------------------ specification
AllOkta == [i \in 1..MaxItems |-> "OKTA_GROUP"]

\* The types of the groups on the server: one type for the groups of odd
\* number and one for those of even number.
GroupTypings ==
    {[i \in 1..MaxItems |-> IF i % 2 = 1 THEN a ELSE b] :
        a \in GroupTypes, b \in GroupTypes}

Empty == [i \in {} |-> <<>>]

MainIdle ==
    /\ stage = "none"
    /\ roles = <<>> /\ resource_sets = <<>> /\ apps = <<>>
    /\ groups = <<>> /\ users = <<>> /\ dgroups = <<>> /\ dusers = <<>>
    /\ idx = 0
    /\ group_roles_by_group = Empty /\ user_roles_by_user = Empty
    /\ written = <<>>

FetchStart ==
    /\ endpoint = 1
    /\ acc = <<>>
    /\ retry_count = DefaultRetryCount
    /\ pc = "request"
    /\ result = <<>>
    /\ requested = <<>>
    /\ lastResp = NoResp
    /\ seen = {}
    /\ slept = <<>>

\* One call of one fetch function against a server of up to MaxPages pages.
Init ==
    /\ fn \in FetchFns
    /\ server \in Layouts
    /\ gtype \in IF fn = "fetch_okta_groups" THEN GroupTypings ELSE {AllOkta}
    /\ labels = Colliding
    /\ FetchStart
    /\ faultsLeft = MaxFetchFaults
    /\ MainIdle
    /\ SubIdle

Next ==
    \/ fetch_roles
    \/ fetch_resource_sets
    \/ fetch_apps
    \/ fetch_all_groups
    \/ fetch_all_users
    \/ fetch_okta_groups
    \/ fetch_okta_group_rules
    \/ paginated_get

Spec == Init /\ [][Next]_vars

\* ------------------------------------------------- admin-roles main()
\* Server content behind the endpoints without pagination.
PermissionsOf(role) == <<role>>
\* One principal in three has a standard role, one in three has a custom
\* role on resource set 1, a standard role, and the custom role once more
\* under another assignment id, and one in three has no role.
AssignmentsOf(principal) ==
    IF principal % 3 = 1
    THEN <<[id |-> principal, type |-> "SUPER_ADMIN", role |-> 0,
            resource_set |-> 0]>>
    ELSE IF principal % 3 = 2
    THEN <<[id |-> principal, type |-> "CUSTOM", role |-> 1,
            resource_set |-> 1],
           [id |-> principal + 3, type |-> "ORG_ADMIN", role |-> 0,
            resource_set |-> 0],
           [id |-> principal + 6, type |-> "CUSTOM", role |-> 1,
            resource_set |-> 1]>>
    ELSE <<>>
ResourcesOf(rs) == <<rs>>

\* What is appended to the two output files, in order: the heading of a
\* section, and a block with its Terraform type, the item it is written
\* for, its symbolic name, the symbolic references in its body and the
\* list its body holds (role types, members).
Section(name) ==
    [sec |-> name, id |-> 0, name |-> <<>>, refs |-> {}, body |-> <<>>]
Block(type, i, name, refs) ==
    [sec |-> type, id |-> i, name |-> name, refs |-> refs, body |-> <<>>]

Range(list) == {list[n] : n \in 1..Len(list)}

\* item.get("label")
LabelOf(kind, i) == labels[kind][i]

\* "label" in df.columns: some row has the key
HasLabelColumn(kind, list) ==
    \E n \in 1..Len(list) : LabelOf(kind, list[n]).given

AllLabelled(kind, list) ==
    \A n \in 1..Len(list) : LabelOf(kind, list[n]).given

\* normalize_resource_name(item.get("label")) for an item with a label,
\* followed by the id of the item.
ResourceName_with_id(kind, i) ==
    normalize_resource_name(LabelOf(kind, i).text) \o <<"_">>
    \o IdText(kind, i)

\* normalize_resource_name(item.get("label")) for an item with a label
ResourceName(kind, i) == normalize_resource_name(LabelOf(kind, i).text)

\* normalize_resource_name(item.get("label", item_id))
ImportName(kind, i) ==
    normalize_resource_name(IF LabelOf(kind, i).given
                            THEN LabelOf(kind, i).text ELSE IdText(kind, i))

\* group.get("profile", {}).get("name") or group.get("name") or group_id
GroupDataName(g) ==
    normalize_resource_name(
        IF LabelOf("groups", g).given /\ LabelOf("groups", g).text # <<>>
        THEN LabelOf("groups", g).text ELSE IdText("groups", g))

\* { row["id"]: row["normalized"] for _, row in df.iterrows() }, the column
\* normalized filled from the labels or from the ids
NameTable(kind, list, fromLabel) ==
    [id \in {IdText(kind, i) : i \in Range(list)} |->
        LET i == CHOOSE j \in Range(list) : IdText(kind, j) = id IN
        IF fromLabel THEN ResourceName(kind, i)
        ELSE normalize_resource_name(IdText(kind, i))]

\* The lookup tables of main(). A DataFrame has one column for each top
\* level key of the items: the name of a group and the email of a user are
\* under "profile", so the columns "profile.name" and "email" do not exist.
app_id_to_normalized == NameTable("apps", apps, HasLabelColumn("apps", apps))
group_id_to_normalized == NameTable("groups", groups, FALSE)
user_id_to_normalized == NameTable("users", users, FALSE)
resource_set_map == NameTable("resource_sets", resource_sets, TRUE)
custom_role_map == NameTable("roles", roles, TRUE)

\* okta_domain of main(): f"{subdomain}.{domain}"
MainDomain == <<"dom">>

\* The keys of a dict filled while looping over order, in insertion order.
RECURSIVE KeysIn(_, _)
KeysIn(order, dict) ==
    IF order = <<>> THEN <<>>
    ELSE (IF Head(order) \in DOMAIN dict THEN <<Head(order)>> ELSE <<>>)
         \o KeysIn(Tail(order), dict)

\* list(set(values)): each value once.
RECURSIVE Distinct(_)
Distinct(values) ==
    IF values = <<>> THEN <<>>
    ELSE LET rest == Distinct(SubSeq(values, 1, Len(values) - 1))
             v == values[Len(values)] IN
         IF v \in Range(rest) THEN rest ELSE Append(rest, v)

\* The filter on the type left out: every assignment passes.
EveryAssignment(assignments) == assignments

\* The assignments whose type is not CUSTOM, and those whose type is.
RECURSIVE Standard(_)
Standard(assignments) ==
    IF assignments = <<>> THEN <<>>
    ELSE (IF Head(assignments).type # "CUSTOM" THEN <<Head(assignments)>>
          ELSE <<>>) \o Standard(Tail(assignments))

RECURSIVE Custom(_)
Custom(assignments) ==
    IF assignments = <<>> THEN <<>>
    ELSE (IF Head(assignments).type = "CUSTOM" THEN <<Head(assignments)>>
          ELSE <<>>) \o Custom(Tail(assignments))

\* The Terraform type of the data block of an object of a kind.
DataTypeOf(kind) ==
    IF kind = "groups" THEN "data.okta_group"
    ELSE IF kind = "users" THEN "data.okta_user"
    ELSE "data.okta_app"

\* The references data.<type>.<name>.id in a value substitute_member
\* returned.
DataRefs(out) ==
    {<<DataTypeOf(t[1]), SubSeq(out, t[2] + 1, t[3] - 1)>> :
        t \in {u \in Kinds \X (1..Len(out)) \X (1..Len(out)) :
                /\ out[u[2]] = OpenOf(u[1])
                /\ u[3] > u[2]
                /\ out[u[3]] = ".id}"
                /\ \A r \in (u[2] + 1)..(u[3] - 1) : out[r] # ".id}"}}

\* f"group_{group_id}_{assignment.get('id')}"
GroupRoleName(g, assignment) ==
    <<"group_">> \o IdText("groups", g) \o <<"_", DigitOf(assignment.id)>>

generate_import_blocks_for_group_roles(by_group, order) ==
    LET keys == KeysIn(order, by_group) IN
    <<Section("import_group_roles")>> \o
    Flatten([n \in 1..Len(keys) |->
        LET std == Standard(by_group[keys[n]]) IN
        [m \in 1..Len(std) |->
            Block("import", keys[n],
                  <<"okta_group_role.">> \o GroupRoleName(keys[n], std[m]),
                  {})]])

generate_terraform_group_roles(by_group, order, gmap) ==
    LET keys == KeysIn(order, by_group) IN
    <<Section("group_roles")>> \o
    Flatten([n \in 1..Len(keys) |->
        LET std == Standard(by_group[keys[n]])
            gid == IdText("groups", keys[n]) IN
        [m \in 1..Len(std) |->
            [Block("okta_group_role", keys[n],
                   GroupRoleName(keys[n], std[m]),
                   IF gid \in DOMAIN gmap
                   THEN {<<"data.okta_group", gmap[gid]>>} ELSE {})
             EXCEPT !.body = <<std[m].type>>]]])

\* The users with a role that is not CUSTOM, in the order of the dict.
RECURSIVE WithStandard(_, _)
WithStandard(keys, by_user) ==
    IF keys = <<>> THEN <<>>
    ELSE (IF Standard(by_user[Head(keys)]) # <<>> THEN <<Head(keys)>>
          ELSE <<>>) \o WithStandard(Tail(keys), by_user)

generate_import_blocks_for_user_roles(by_user, order) ==
    LET keys == WithStandard(KeysIn(order, by_user), by_user) IN
    <<Section("import_user_roles")>> \o
    [n \in 1..Len(keys) |->
        Block("import", keys[n],
              <<"okta_user_admin_roles.", "user_">>
              \o IdText("users", keys[n]), {})]

generate_terraform_user_roles(by_user, order, umap) ==
    LET keys == WithStandard(KeysIn(order, by_user), by_user) IN
    <<Section("user_roles")>> \o
    [n \in 1..Len(keys) |->
        LET uid == IdText("users", keys[n])
            std == Standard(by_user[keys[n]]) IN
        [Block("okta_user_admin_roles", keys[n], <<"user_">> \o uid,
               IF uid \in DOMAIN umap
               THEN {<<"data.okta_user", umap[uid]>>} ELSE {})
         EXCEPT !.body = Distinct([m \in 1..Len(std) |-> std[m].type])]]

generate_import_blocks_for_resource_sets(list) ==
    <<Section("import_resource_sets")>> \o
    [n \in 1..Len(list) |->
        Block("import", list[n],
              <<"okta_resource_set.">>
              \o ImportName("resource_sets", list[n]), {})]

generate_import_blocks_for_admin_roles(list) ==
    <<Section("import_admin_roles")>> \o
    [n \in 1..Len(list) |->
        Block("import", list[n],
              <<"okta_admin_role_custom.">> \o ImportName("roles", list[n]),
              {})]

generate_data_blocks_for_groups(list) ==
    <<Section("data_groups")>> \o
    [n \in 1..Len(list) |->
        Block("data.okta_group", list[n], GroupDataName(list[n]), {})]

\* key = user.get("email") or user.get("login") or user_id: both keys are
\* under "profile", so the key is the id
generate_data_blocks_for_users(list) ==
    <<Section("data_users")>> \o
    [n \in 1..Len(list) |->
        Block("data.okta_user", list[n],
              normalize_resource_name(IdText("users", list[n])), {})]

generate_data_blocks_for_resource_sets(list) ==
    <<Section("data_resource_sets")>> \o
    [n \in 1..Len(list) |->
        Block("data.okta_resource_set", list[n],
              ResourceName("resource_sets", list[n]), {})]

generate_data_blocks_for_custom_roles(list) ==
    <<Section("data_custom_roles")>> \o
    [n \in 1..Len(list) |->
        Block("data.okta_admin_role_custom", list[n],
              ResourceName("roles", list[n]), {})]

generate_data_blocks_for_apps(amap, list) ==
    IF DOMAIN amap = {} THEN <<>>
    ELSE <<Section("data_apps")>> \o
         [n \in 1..Len(list) |->
             Block("data.okta_app", list[n], amap[IdText("apps", list[n])],
                   {})]

\* '${local.org_url}/api/v1/<kind>/{}'.format(id)
MemberHref(kind, i) ==
    <<OrgUrl>> \o ApiPath(kind) \o <<Slash>> \o IdText(kind, i)

\* The (key, member) pairs aggregate_custom_assignments adds for the
\* principals of one kind, in order.
CustomPairs(kind, by, order) ==
    LET keys == KeysIn(order, by) IN
    Flatten([n \in 1..Len(keys) |->
        LET cus == Custom(by[keys[n]]) IN
        [m \in 1..Len(cus) |->
            [key |-> <<cus[m].role, cus[m].resource_set>>,
             member |-> MemberHref(kind, keys[n])]]])

aggregate_custom_assignments ==
    CustomPairs("groups", group_roles_by_group, dgroups)
    \o CustomPairs("users", user_roles_by_user, dusers)

\* The keys of custom_assignments in insertion order, and the member set
\* of a key.
RECURSIVE FirstKeys(_)
FirstKeys(pairs) ==
    IF pairs = <<>> THEN <<>>
    ELSE LET rest == FirstKeys(SubSeq(pairs, 1, Len(pairs) - 1))
             key == pairs[Len(pairs)].key IN
         IF key \in Range(rest) THEN rest ELSE Append(rest, key)

MembersOf(pairs, key) ==
    {pairs[n].member : n \in {m \in 1..Len(pairs) : pairs[m].key = key}}

\* The members of a key as the code walks them: each one once.
RECURSIVE MemberList(_, _)
MemberList(pairs, key) ==
    IF pairs = <<>> THEN <<>>
    ELSE Distinct((IF Head(pairs).key = key THEN <<Head(pairs).member>>
                   ELSE <<>>) \o MemberList(Tail(pairs), key))

\* f"ca_{normalize_resource_name(custom_role_id)}_{normalize_resource_name(resource_set_id)}"
CustomAssignmentName(key) ==
    <<"ca_">> \o normalize_resource_name(IdText("roles", key[1]))
    \o <<"_">> \o normalize_resource_name(IdText("resource_sets", key[2]))

generate_import_blocks_for_custom_assignments(pairs) ==
    LET keys == FirstKeys(pairs) IN
    <<Section("import_custom_assignments")>> \o
    [n \in 1..Len(keys) |->
        Block("import", keys[n][1],
              <<"okta_admin_role_custom_assignments.">>
              \o CustomAssignmentName(keys[n]), {})]

generate_terraform_custom_assignments(pairs, gmap, umap, rsmap, crmap) ==
    LET keys == FirstKeys(pairs) IN
    <<Section("custom_assignments")>> \o
    [n \in 1..Len(keys) |->
        LET rid == IdText("roles", keys[n][1])
            sid == IdText("resource_sets", keys[n][2])
            members == MemberList(pairs, keys[n]) IN
        [Block("okta_admin_role_custom_assignments", keys[n][1],
               CustomAssignmentName(keys[n]),
               UNION {DataRefs(substitute_member(m, gmap, umap, NoAppMap,
                                                 <<>>)) :
                         m \in MembersOf(pairs, keys[n])}
               \cup (IF sid \in DOMAIN rsmap
                     THEN {<<"okta_resource_set", rsmap[sid]>>} ELSE {})
               \cup (IF rid \in DOMAIN crmap
                     THEN {<<"okta_admin_role_custom", crmap[rid]>>}
                     ELSE {}))
         EXCEPT !.body = [m \in 1..Len(members) |->
                            substitute_member(members[m], gmap, umap,
                                              NoAppMap, <<>>)]]]

\* The URL of resource r of a resource set: the group of that number.
ResourceUrl(r) ==
    IdUrl(<<"https://">> \o MainDomain, "groups", IdText("groups", r), <<>>)

\* The call of a paginated fetch function: its locals are fresh.
StartFetch(f) ==
    /\ fn' = f
    /\ endpoint' = 1
    /\ acc' = <<>>
    /\ retry_count' = DefaultRetryCount
    /\ pc' = "request"
    /\ result' = <<>>
    /\ requested' = <<>>
    /\ lastResp' = NoResp
    /\ seen' = {}
    /\ slept' = <<>>
    /\ UNCHANGED <<faultsLeft, idx>>

\* The entry of a for loop whose body calls f once for each element of list.
StartItems(f, list) ==
    /\ fn' = f
    /\ idx' = 1
    /\ endpoint' = IF list = <<>> THEN NoUrl ELSE list[1]
    /\ pc' = IF list = <<>> THEN "returned" ELSE "request"
    /\ acc' = <<>>
    /\ retry_count' = DefaultRetryCount
    /\ result' = <<>>
    /\ requested' = <<>>
    /\ lastResp' = NoResp
    /\ seen' = {}
    /\ slept' = <<>>
    /\ UNCHANGED faultsLeft

\* The for loop moves to its next element, or ends.
NextItem(list) ==
    /\ idx' = idx + 1
    /\ endpoint' = IF idx < Len(list) THEN list[idx + 1] ELSE NoUrl
    /\ pc' = IF idx < Len(list) THEN "request" ELSE "returned"
    /\ retry_count' = DefaultRetryCount
    /\ UNCHANGED <<acc, result>>

\* df["id"] on the DataFrame of an empty list: KeyError, which nothing
\* catches; main() ends there.
KeyError ==
    /\ stage' = "KeyError"
    /\ UNCHANGED <<fn, fetchVars, histVars, idx>>

\* df["label"] when no item of the list has a label: KeyError as well.
KeyErrorLabel ==
    /\ stage' = "KeyError: 'label'"
    /\ UNCHANGED <<fn, fetchVars, histVars, idx>>

\* normalize_resource_name of a missing label, None or NaN: label.lower()
\* raises AttributeError, which nothing catches; main() ends there.
AttributeError ==
    /\ stage' = "AttributeError"
    /\ UNCHANGED <<fn, fetchVars, histVars, idx>>

\* roles = fetch_roles(...)
main_roles_fetched ==
    /\ stage = "roles" /\ pc = "returned"
    /\ roles' = result
    /\ StartFetch("fetch_resource_sets")
    /\ stage' = "resource_sets"
    /\ UNCHANGED <<envVars, subVars, resource_sets, apps, groups, users, dgroups,
                   dusers, group_roles_by_group, user_roles_by_user, written>>

\* resource_sets = fetch_resource_sets(...)
main_resource_sets_fetched ==
    /\ stage = "resource_sets" /\ pc = "returned"
    /\ resource_sets' = result
    /\ StartFetch("fetch_apps")
    /\ stage' = "apps"
    /\ UNCHANGED <<envVars, subVars, roles, apps, groups, users, dgroups,
                   dusers, group_roles_by_group, user_roles_by_user, written>>

\* apps = fetch_apps(...); df_apps = pd.DataFrame(apps); the app lookup
\* table is built from df_apps["id"] (or ["label"] when there are rows).
main_apps_fetched ==
    /\ stage = "apps" /\ pc = "returned"
    /\ apps' = result
    /\ IF result = <<>>
       THEN KeyError
       ELSE IF HasLabelColumn("apps", result) /\ ~AllLabelled("apps", result)
       THEN AttributeError
       ELSE StartFetch("fetch_all_groups") /\ stage' = "groups"
    /\ UNCHANGED <<envVars, subVars, roles, resource_sets, groups, users, dgroups,
                   dusers, group_roles_by_group, user_roles_by_user, written>>

\* groups = fetch_all_groups(...)
main_groups_fetched ==
    /\ stage = "groups" /\ pc = "returned"
    /\ groups' = result
    /\ StartFetch("fetch_all_users")
    /\ stage' = "users"
    /\ UNCHANGED <<envVars, subVars, roles, resource_sets, apps, users, dgroups,
                   dusers, group_roles_by_group, user_roles_by_user, written>>

\* users = fetch_all_users(...); the group and user lookup tables are built
\* from df_groups["id"] and df_users["id"]; then debug_with_pandas starts:
\* it prints df_rs[['id', 'label', 'description']], normalizes
\* df_roles["label"] and fetches the groups again.
main_users_fetched ==
    /\ stage = "users" /\ pc = "returned"
    /\ users' = result
    /\ IF groups = <<>> \/ result = <<>>
       THEN KeyError
       ELSE IF \/ resource_sets # <<>>
                  /\ ~HasLabelColumn("resource_sets", resource_sets)
               \/ roles # <<>> /\ ~HasLabelColumn("roles", roles)
       THEN KeyErrorLabel
       ELSE IF ~AllLabelled("roles", roles)
       THEN AttributeError
       ELSE StartFetch("fetch_all_groups") /\ stage' = "debug_groups"
    /\ UNCHANGED <<envVars, subVars, roles, resource_sets, apps, groups, dgroups,
                   dusers, group_roles_by_group, user_roles_by_user, written>>

debug_groups_fetched ==
    /\ stage = "debug_groups" /\ pc = "returned"
    /\ dgroups' = result
    /\ StartFetch("fetch_all_users")
    /\ stage' = "debug_users"
    /\ UNCHANGED <<envVars, subVars, roles, resource_sets, apps, groups, users,
                   dusers, group_roles_by_group, user_roles_by_user, written>>

debug_users_fetched ==
    /\ stage = "debug_users" /\ pc = "returned"
    /\ dusers' = result
    /\ StartFetch("fetch_apps")
    /\ stage' = "debug_apps"
    /\ UNCHANGED <<envVars, subVars, roles, resource_sets, apps, groups, users,
                   dgroups, group_roles_by_group, user_roles_by_user, written>>

\* apps = fetch_apps(...) of debug_with_pandas (only written to a CSV), then
\* for group in groups: fetch_group_roles
debug_apps_fetched ==
    /\ stage = "debug_apps" /\ pc = "returned"
    /\ StartItems("fetch_group_roles", dgroups)
    /\ stage' = "group_roles"
    /\ UNCHANGED <<envVars, subVars, roles, resource_sets, apps, groups, users,
                   dgroups, dusers, group_roles_by_group, user_roles_by_user,
                   written>>

\* One requests.get of a function that calls get_api_data once for the
\* current element of a for loop: the request raises, get_api_data calls
\* itself again, or it returns and the loop moves on.
ItemIteration(list, resp) ==
    IF Transport(resp)
    THEN Raise /\ Sent(resp, <<>>) /\ UNCHANGED idx
    ELSE LET r == get_api_data(resp, retry_count) IN
         /\ Sent(resp, r.sleeps)
         /\ IF r.retry THEN Retry /\ UNCHANGED idx ELSE NextItem(list)

\* get_api_data returned to the function that called it.
ItemReturns(resp) ==
    ~Transport(resp) /\ ~get_api_data(resp, retry_count).retry

\* "data if data else []": the JSON body, or [] when data is None.
ItemData(resp) ==
    IF get_api_data(resp, retry_count).none THEN <<>> ELSE resp.items

\* assignments = fetch_group_roles(...); if assignments: store
fetch_group_roles ==
    /\ fn = "fetch_group_roles" /\ pc = "request"
    /\ \E resp \in ServerAnswers(Item200(AssignmentsOf(endpoint))) :
         /\ ItemIteration(dgroups, resp)
         /\ group_roles_by_group' =
              IF ItemReturns(resp) /\ ItemData(resp) # <<>>
              THEN [g \in DOMAIN group_roles_by_group \cup {endpoint} |->
                      IF g = endpoint THEN ItemData(resp)
                      ELSE group_roles_by_group[g]]
              ELSE group_roles_by_group
    /\ UNCHANGED <<fn, envVars, subVars, stage, roles, resource_sets, apps,
                   groups, users, dgroups, dusers, user_roles_by_user, written>>

debug_group_roles_done ==
    /\ stage = "group_roles" /\ pc = "returned"
    /\ StartItems("fetch_user_roles", dusers)
    /\ stage' = "user_roles"
    /\ UNCHANGED <<envVars, subVars, roles, resource_sets, apps, groups, users,
                   dgroups, dusers, group_roles_by_group, user_roles_by_user,
                   written>>

fetch_user_roles ==
    /\ fn = "fetch_user_roles" /\ pc = "request"
    /\ \E resp \in ServerAnswers(Item200(AssignmentsOf(endpoint))) :
         /\ ItemIteration(dusers, resp)
         /\ user_roles_by_user' =
              IF ItemReturns(resp) /\ ItemData(resp) # <<>>
              THEN [u \in DOMAIN user_roles_by_user \cup {endpoint} |->
                      IF u = endpoint THEN ItemData(resp)
                      ELSE user_roles_by_user[u]]
              ELSE user_roles_by_user
    /\ UNCHANGED <<fn, envVars, subVars, stage, roles, resource_sets, apps,
                   groups, users, dgroups, dusers, group_roles_by_group,
                   written>>

\* What the end of debug_with_pandas (four generate_* calls) and the two
\* generate_import_blocks_* calls of main() append.
DebugAndImportBlocks ==
    generate_import_blocks_for_group_roles(group_roles_by_group, dgroups)
    \o generate_terraform_group_roles(group_roles_by_group, dgroups,
                                      group_id_to_normalized)
    \o generate_import_blocks_for_user_roles(user_roles_by_user, dusers)
    \o generate_terraform_user_roles(user_roles_by_user, dusers,
                                     user_id_to_normalized)
    \o generate_import_blocks_for_resource_sets(resource_sets)
    \o generate_import_blocks_for_admin_roles(roles)

\* What main() appends from the data blocks to the heading of the roles.
DataAndAssignmentBlocks ==
    generate_data_blocks_for_groups(groups)
    \o generate_data_blocks_for_users(users)
    \o generate_data_blocks_for_resource_sets(resource_sets)
    \o generate_data_blocks_for_custom_roles(roles)
    \o generate_data_blocks_for_apps(app_id_to_normalized, apps)
    \o generate_import_blocks_for_custom_assignments(
           aggregate_custom_assignments)
    \o generate_terraform_custom_assignments(
           aggregate_custom_assignments, group_id_to_normalized,
           user_id_to_normalized, resource_set_map, custom_role_map)
    \o <<Section("roles")>>

\* The end of debug_with_pandas, then main() up to the first
\* fetch_role_permissions of generate_terraform_roles. resource_set_map and
\* custom_role_map normalize rs.get("label") and role.get("label"): with a
\* label missing main() ends there, after the import blocks.
main_emit ==
    /\ stage = "user_roles" /\ pc = "returned"
    /\ IF /\ AllLabelled("resource_sets", resource_sets)
          /\ AllLabelled("roles", roles)
       THEN /\ written' = written \o DebugAndImportBlocks
                          \o DataAndAssignmentBlocks
            /\ StartItems("fetch_role_permissions", roles)
            /\ stage' = "role_blocks"
       ELSE /\ written' = written \o DebugAndImportBlocks
            /\ AttributeError
    /\ UNCHANGED <<envVars, subVars, roles, resource_sets, apps, groups, users,
                   dgroups, dusers, group_roles_by_group, user_roles_by_user>>

\* permissions = fetch_role_permissions(...), then the role block is written
fetch_role_permissions ==
    /\ fn = "fetch_role_permissions" /\ pc = "request"
    /\ \E resp \in ServerAnswers(Item200(PermissionsOf(endpoint))) :
         /\ ItemIteration(roles, resp)
         /\ written' = IF ItemReturns(resp)
                       THEN Append(written,
                                   Block("okta_admin_role_custom", endpoint,
                                         ResourceName("roles", endpoint),
                                         {}))
                       ELSE written
    /\ UNCHANGED <<fn, envVars, subVars, stage, roles, resource_sets, apps,
                   groups, users, dgroups, dusers, group_roles_by_group,
                   user_roles_by_user>>

main_roles_emitted ==
    /\ stage = "role_blocks" /\ pc = "returned"
    /\ written' = Append(written, Section("resource_sets"))
    /\ StartItems("fetch_resource_set_resources", resource_sets)
    /\ stage' = "resource_set_blocks"
    /\ UNCHANGED <<envVars, subVars, roles, resource_sets, apps, groups, users,
                   dgroups, dusers, group_roles_by_group, user_roles_by_user>>

\* The references in [substitute_member(ep, group_map, user_map, app_map,
\* okta_domain) for ep in endpoints]
SubstitutedRefs(endpoints) ==
    UNION {DataRefs(substitute_member(
                        ResourceUrl(r), group_id_to_normalized,
                        user_id_to_normalized,
                        [given |-> TRUE, map |-> app_id_to_normalized],
                        MainDomain)) : r \in Range(endpoints)}

\* endpoints = fetch_resource_set_resources(...), then the block is written
fetch_resource_set_resources ==
    /\ fn = "fetch_resource_set_resources" /\ pc = "request"
    /\ \E resp \in ServerAnswers(Item200(ResourcesOf(endpoint))) :
         /\ ItemIteration(resource_sets, resp)
         /\ written' = IF ItemReturns(resp)
                       THEN Append(written,
                                   Block("okta_resource_set", endpoint,
                                         ResourceName("resource_sets",
                                                      endpoint),
                                         SubstitutedRefs(ItemData(resp))))
                       ELSE written
    /\ UNCHANGED <<fn, envVars, subVars, stage, roles, resource_sets, apps,
                   groups, users, dgroups, dusers, group_roles_by_group,
                   user_roles_by_user>>

\* generate_terraform_user_roles and the closing prints: main() is complete.
main_finish ==
    /\ stage = "resource_set_blocks" /\ pc = "returned"
    /\ written' = written \o
         generate_terraform_user_roles(user_roles_by_user, dusers,
                                       user_id_to_normalized)
    /\ stage' = "done"
    /\ UNCHANGED <<fn, envVars, subVars, fetchVars, histVars, roles, resource_sets,
                   apps, groups, users, dgroups, dusers, idx,
                   group_roles_by_group, user_roles_by_user>>

\* The collections main() reads: up to MaxMainPages pages holding up to
\* MaxMainPages items in all; only a collection of one page has an empty
\* page.
MainLayouts ==
    {l \in Layouts :
        /\ Len(l) <= MaxMainPages
        /\ Len(Flatten(l)) <= MaxMainPages
        /\ Len(l) > 1 => \A k \in 1..Len(l) : l[k] # <<>>}

\* main() after the header of the output file is written, about to call
\* fetch_roles.
InitMain ==
    /\ fn = "fetch_roles"
    /\ server \in MainLayouts
    /\ gtype = AllOkta
    /\ labels \in Labelings
    /\ FetchStart
    /\ faultsLeft = MaxMainFaults
    /\ stage = "roles"
    /\ roles = <<>> /\ resource_sets = <<>> /\ apps = <<>>
    /\ groups = <<>> /\ users = <<>> /\ dgroups = <<>> /\ dusers = <<>>
    /\ idx = 0
    /\ group_roles_by_group = Empty /\ user_roles_by_user = Empty
    /\ written = <<Section("header")>>
    /\ SubIdle

NextMain ==
    \/ fetch_roles
    \/ fetch_resource_sets
    \/ fetch_apps
    \/ fetch_all_groups
    \/ fetch_all_users
    \/ main_roles_fetched
    \/ main_resource_sets_fetched
    \/ main_apps_fetched
    \/ main_groups_fetched
    \/ main_users_fetched
    \/ debug_groups_fetched
    \/ debug_users_fetched
    \/ debug_apps_fetched
    \/ fetch_group_roles
    \/ debug_group_roles_done
    \/ fetch_user_roles
    \/ main_emit
    \/ fetch_role_permissions
    \/ main_roles_emitted
    \/ fetch_resource_set_resources
    \/ main_finish

SpecMain == InitMain /\ [][NextMain]_vars

\* One or two calls of substitute_member on the same arguments.
call_substitute_member ==
    /\ Len(outs) < MaxCalls
    /\ outs' = Append(outs, substitute_member(member, group_map, user_map,
                                              app_map, okta_domain))
    /\ UNCHANGED <<fn, envVars, fetchVars, histVars, mainVars, member,
                   group_map, user_map, app_map, okta_domain, label,
                   normalized, toolVars>>

InitSub ==
    /\ member \in Members
    /\ group_map \in NameTables(<<"g1">>, <<"admin_team">>)
    /\ user_map \in NameTables(<<"u1">>, <<"jo_example_com">>)
    /\ app_map \in {NoAppMap}
                   \cup {[given |-> TRUE, map |-> t] :
                           t \in NameTables(<<"a1">>, <<"my_app">>)}
    /\ okta_domain \in {<<"dom">>, <<>>}
    /\ outs = <<>>
    /\ label = <<>>
    /\ normalized = NoName
    /\ ToolIdle
    /\ fn = "substitute_member"
    /\ server = <<>> /\ gtype = AllOkta
    /\ labels = Colliding
    /\ endpoint = NoUrl /\ acc = <<>> /\ retry_count = DefaultRetryCount
    /\ pc = "returned" /\ result = <<>>
    /\ requested = <<>> /\ lastResp = NoResp /\ seen = {} /\ slept = <<>>
    /\ faultsLeft = 0
    /\ MainIdle

NextSub == call_substitute_member

SpecSub == InitSub /\ [][NextSub]_vars

\* One call of normalize_resource_name.
call_normalize_resource_name ==
    /\ normalized = NoName
    /\ normalized' = normalize_resource_name(label)
    /\ UNCHANGED <<fn, envVars, fetchVars, histVars, mainVars, member,
                   group_map, user_map, app_map, okta_domain, outs, label,
                   toolVars>>

\* One call of sanitize_name.
call_sanitize_name ==
    /\ sanitized = NoName
    /\ sanitized' = sanitize_name(label)
    /\ UNCHANGED <<fn, envVars, fetchVars, histVars, mainVars, member,
                   group_map, user_map, app_map, okta_domain, outs, label,
                   normalized, new_iam_roles, legacy_roles, roles_dict,
                   content, output_lines, policyVars>>

InitNorm ==
    /\ label \in Labels
    /\ normalized = NoName
    /\ ToolIdle
    /\ member = <<>>
    /\ group_map = Empty /\ user_map = Empty /\ app_map = NoAppMap
    /\ okta_domain = <<>>
    /\ outs = <<>>
    /\ fn = "normalize_resource_name"
    /\ server = <<>> /\ gtype = AllOkta
    /\ labels = Colliding
    /\ endpoint = NoUrl /\ acc = <<>> /\ retry_count = DefaultRetryCount
    /\ pc = "returned" /\ result = <<>>
    /\ requested = <<>> /\ lastResp = NoResp /\ seen = {} /\ slept = <<>>
    /\ faultsLeft = 0
    /\ MainIdle

NextNorm ==
    \/ call_normalize_resource_name
    \/ call_sanitize_name

SpecNorm == InitNorm /\ [][NextNorm]_vars

\* No fetch loop and no main() of the admin-roles generator is running.
NoFetch ==
    /\ server = <<>> /\ gtype = AllOkta
    /\ labels = Colliding
    /\ endpoint = NoUrl /\ acc = <<>> /\ retry_count = DefaultRetryCount
    /\ result = <<>>
    /\ requested = <<>> /\ lastResp = NoResp /\ seen = {} /\ slept = <<>>
    /\ faultsLeft = 0
    /\ MainIdle

\* What no tool below changes.
restVars == <<fn, envVars, endpoint, acc, retry_count, result, histVars,
              mainVars, member, group_map, user_map, app_map, okta_domain,
              outs, label, normalized, sanitized>>

\* ------------------------------------------------ old_main: combine roles
MaxRoles == 2
RoleIds == {"cr1", "cr2", "r3"}

\* A role object as a list holds it: its id, the list and its place there.
RoleLists(list) ==
    UNION {{[k \in 1..n |-> [id |-> ids[k], of |-> list, at |-> k]] :
               ids \in [1..n -> RoleIds]} : n \in 0..MaxRoles}

\* dict[key] = value
Put(dict, key, value) ==
    [k \in DOMAIN dict \cup {key} |-> IF k = key THEN value ELSE dict[k]]

\* for r in new_iam_roles: roles_dict[rid] = {"role": r, ..., "source": "new"}
RECURSIVE AddNew(_, _)
AddNew(dict, list) ==
    IF list = <<>> THEN dict
    ELSE AddNew(Put(dict, Head(list).id,
                    [role |-> Head(list), source |-> <<"new">>]),
                Tail(list))

\* The second loop storing the legacy role whether or not the id is there.
RECURSIVE AddLegacy_overwriting(_, _)
AddLegacy_overwriting(dict, list) ==
    IF list = <<>> THEN dict
    ELSE AddLegacy_overwriting(
             Put(dict, Head(list).id,
                 [role |-> Head(list), source |-> <<"legacy">>]),
             Tail(list))

\* for r in legacy_roles: if rid in roles_dict: source += "+legacy"
\* else: roles_dict[rid] = {"role": r, ..., "source": "legacy"}
RECURSIVE AddLegacy(_, _)
AddLegacy(dict, list) ==
    IF list = <<>> THEN dict
    ELSE LET r == Head(list) IN
         AddLegacy(IF r.id \in DOMAIN dict
                   THEN Put(dict, r.id,
                            [dict[r.id] EXCEPT !.source = @ \o <<"+legacy">>])
                   ELSE Put(dict, r.id,
                            [role |-> r, source |-> <<"legacy">>]),
                   Tail(list))

\* "# combine roles": roles_dict = {} and the two loops
combine_roles ==
    /\ fn = "old_main" /\ pc = "call"
    /\ roles_dict' = AddLegacy(AddNew(Empty, new_iam_roles), legacy_roles)
    /\ pc' = "returned"
    /\ UNCHANGED <<restVars, new_iam_roles, legacy_roles, content,
                   output_lines, policyVars>>

\* main() of old_main with both role lists fetched.
InitMerge ==
    /\ fn = "old_main" /\ pc = "call"
    /\ new_iam_roles \in RoleLists("new")
    /\ legacy_roles \in RoleLists("legacy")
    /\ roles_dict = Empty
    /\ sanitized = NoName
    /\ content = <<>> /\ output_lines = <<>>
    /\ PolicyIdle
    /\ member = <<>>
    /\ group_map = Empty /\ user_map = Empty /\ app_map = NoAppMap
    /\ okta_domain = <<>> /\ outs = <<>>
    /\ label = <<>> /\ normalized = NoName
    /\ NoFetch

NextMerge == combine_roles

SpecMerge == InitMerge /\ [][NextMerge]_vars

\* ------------------------------------------------ groups move blocks
MaxResources == 3

\* The text after the opening quote of the first name = "..." of a block,
\* character by character; <<>> is a block without one.
NameTexts == {<<>>, <<"A">>, <<"A", " ">>,
              <<"A", "\\", Quote, "B">>, <<"A", "\\", Quote, "C">>}

\* group_preview_..., group_prod_..., or a label the pattern does not match
ResourceKinds == {"preview", "prod", "other"}

\* An input file: its okta_group resources in file order.
Contents ==
    UNION {[1..n -> [kind : ResourceKinds, name : NameTexts]] :
              n \in 0..MaxResources}

\* ([^"]+)
RECURSIVE UpToQuote(_)
UpToQuote(text) ==
    IF text = <<>> \/ Head(text) = Quote THEN <<>>
    ELSE <<Head(text)>> \o UpToQuote(Tail(text))

RECURSIVE LStrip(_)
LStrip(text) ==
    IF text # <<>> /\ Head(text) = " " THEN LStrip(Tail(text)) ELSE text

RECURSIVE RStrip(_)
RStrip(text) ==
    IF text # <<>> /\ text[Len(text)] = " "
    THEN RStrip(SubSeq(text, 1, Len(text) - 1))
    ELSE text

\* name_match.group(1) kept as it is.
Unstripped(text) == text

\* .strip()
Strip(text) == RStrip(LStrip(text))

\* dict[key] = value on a dict in insertion order
SetItem(dict, key, value) ==
    IF \E i \in 1..Len(dict) : dict[i].key = key
    THEN [i \in 1..Len(dict) |->
             IF dict[i].key = key THEN [key |-> key, value |-> value]
             ELSE dict[i]]
    ELSE Append(dict, [key |-> key, value |-> value])

\* dict[key]
GetItem(dict, key) ==
    dict[CHOOSE i \in 1..Len(dict) : dict[i].key = key].value

\* match.group(1) and line_num of the k-th resource
FullResource(text, k) == [kind |-> text[k].kind, id |-> k, line |-> k]

\* The for loop over re.finditer, for one of the two dicts.
RECURSIVE GroupsOf(_, _, _)
GroupsOf(text, kind, k) ==
    IF k = 0 THEN <<>>
    ELSE LET dict == GroupsOf(text, kind, k - 1)
             name_match == UpToQuote(text[k].name)
         IN  IF text[k].kind = kind /\ name_match # <<>>
             THEN SetItem(dict, Strip(name_match), FullResource(text, k))
             ELSE dict

\* for group_name, ... in preview_groups.items():
\*     if group_name in prod_groups: the moved block
MoveBlocks(preview_groups, prod_groups) ==
    LET InProd(item) ==
            \E j \in 1..Len(prod_groups) : prod_groups[j].key = item.key
        moved == SelectSeq(preview_groups, InProd)
    IN  [i \in 1..Len(moved) |->
            [from |-> moved[i].value,
             to   |-> GetItem(prod_groups, moved[i].key)]]

generate_move_blocks ==
    /\ fn = "generate_move_blocks" /\ pc = "call"
    /\ output_lines' = MoveBlocks(GroupsOf(content, "preview", Len(content)),
                                  GroupsOf(content, "prod", Len(content)))
    /\ pc' = "returned"
    /\ UNCHANGED <<restVars, new_iam_roles, legacy_roles, roles_dict,
                   content, policyVars>>

InitMove ==
    /\ fn = "generate_move_blocks" /\ pc = "call"
    /\ content \in Contents
    /\ output_lines = <<>>
    /\ new_iam_roles = <<>> /\ legacy_roles = <<>> /\ roles_dict = Empty
    /\ sanitized = NoName
    /\ PolicyIdle
    /\ member = <<>>
    /\ group_map = Empty /\ user_map = Empty /\ app_map = NoAppMap
    /\ okta_domain = <<>> /\ outs = <<>>
    /\ label = <<>> /\ normalized = NoName
    /\ NoFetch

NextMove == generate_move_blocks

SpecMove == InitMove /\ [][NextMove]_vars

\* ------------------------------------------------ policy generators
MaxPolicies == 2
PolicyFns == {"policy_password", "policy_mfa_enroll"}
PolicyTypes == {"PASSWORD", "MFA_ENROLL"}

\* conditions.people.groups.include of a policy (<<>>: empty or absent)
Includes == {<<>>, <<1>>, <<2, 1>>, <<1, 1>>}

PolicyLists ==
    UNION {[1..n -> [type : PolicyTypes, system : BOOLEAN,
                     include : Includes]] : n \in 0..MaxPolicies}

\* The rules fetched for a policy: none (or a failed fetch), or one rule.
RuleAnswers == {<<>>, <<"rule">>}

\* f"group_{group_id}"
GroupName(group_id) == <<"group_", group_id>>

\* f"data.okta_group.group_{group}.id"
GroupRef(group) == [data |-> "okta_group", name |-> GroupName(group)]

\* The references of groups_included (<<>> stands for null as well).
RefList(include) == [i \in 1..Len(include) |-> GroupRef(include[i])]

\* generate_policy_block: the block it returns
generate_policy_block(policy) ==
    [type |-> IF policy.system THEN "okta_policy_password_default"
              ELSE "okta_policy_password",
     groups_included |-> RefList(policy.include)]

\* generate_policy_block: what it adds to global_groups
PasswordGroups(policy) ==
    {policy.include[i] : i \in 1..Len(policy.include)}

\* generate_terraform_from_policy: the block it returns
generate_terraform_from_policy(policy) ==
    IF ~policy.system
    THEN [type |-> "okta_policy_mfa",
          groups_included |-> RefList(policy.include)]
    ELSE [type |-> "okta_policy_mfa_default", groups_included |-> <<>>]

\* global_groups.update(groups) done for the default policy as well.
MfaGroups_of_default_too(policy) ==
    {policy.include[i] : i \in 1..Len(policy.include)}

\* generate_terraform_from_policy: what it adds to global_groups
MfaGroups(policy) ==
    IF ~policy.system
    THEN {policy.include[i] : i \in 1..Len(policy.include)}
    ELSE {}

\* The rule blocks of a policy; no rule block has groups_included.
RuleBlocks(rules, type) ==
    [i \in 1..Len(rules) |-> [type |-> type, groups_included |-> <<>>]]

\* generate_data_block_for_group
generate_data_block_for_group(group_id) ==
    [data |-> "okta_group", name |-> GroupName(group_id), id |-> group_id]

\* sorted(...)
RECURSIVE Sorted(_)
Sorted(S) ==
    IF S = {} THEN <<>> ELSE <<Min(S)>> \o Sorted(S \ {Min(S)})

\* One turn of "for policy in policies" of the password generator's main().
password_policy ==
    /\ fn = "policy_password" /\ pc = "call"
    /\ policy_pos <= Len(policies)
    /\ LET policy == policies[policy_pos] IN
         IF policy.type # "PASSWORD"
         THEN UNCHANGED <<global_group_ids, resource_blocks>>
         ELSE \E rules \in RuleAnswers :
                /\ global_group_ids'
                   = global_group_ids \cup PasswordGroups(policy)
                /\ resource_blocks'
                   = resource_blocks \o <<generate_policy_block(policy)>>
                     \o RuleBlocks(rules, "okta_policy_rule_password")
    /\ policy_pos' = policy_pos + 1
    /\ UNCHANGED <<restVars, pc, new_iam_roles, legacy_roles, roles_dict,
                   content, output_lines, policies, data_blocks>>

\* One turn of "for policy in policies" of generate_terraform_file.
mfa_policy ==
    /\ fn = "policy_mfa_enroll" /\ pc = "call"
    /\ policy_pos <= Len(policies)
    /\ LET policy == policies[policy_pos] IN
         IF policy.type # "MFA_ENROLL"
         THEN UNCHANGED <<global_group_ids, resource_blocks>>
         ELSE \E rules \in RuleAnswers :
                /\ global_group_ids' = global_group_ids \cup MfaGroups(policy)
                /\ resource_blocks'
                   = resource_blocks
                     \o <<generate_terraform_from_policy(policy)>>
                     \o RuleBlocks(rules, "okta_policy_rule_mfa")
    /\ policy_pos' = policy_pos + 1
    /\ UNCHANGED <<restVars, pc, new_iam_roles, legacy_roles, roles_dict,
                   content, output_lines, policies, data_blocks>>

\* for group_id in sorted(global_group_ids): data_blocks.append(...)
\* (the same loop in both generators)
group_data_blocks ==
    /\ fn \in PolicyFns /\ pc = "call"
    /\ policy_pos > Len(policies)
    /\ data_blocks'
       = [i \in 1..Cardinality(global_group_ids) |->
             generate_data_block_for_group(Sorted(global_group_ids)[i])]
    /\ pc' = "returned"
    /\ UNCHANGED <<restVars, new_iam_roles, legacy_roles, roles_dict, content,
                   output_lines, policies, policy_pos, global_group_ids,
                   resource_blocks>>

InitPolicy ==
    /\ fn \in PolicyFns /\ pc = "call"
    /\ policies \in PolicyLists
    /\ policy_pos = 1
    /\ global_group_ids = {}
    /\ resource_blocks = <<>> /\ data_blocks = <<>>
    /\ new_iam_roles = <<>> /\ legacy_roles = <<>> /\ roles_dict = Empty
    /\ content = <<>> /\ output_lines = <<>>
    /\ sanitized = NoName
    /\ member = <<>>
    /\ group_map = Empty /\ user_map = Empty /\ app_map = NoAppMap
    /\ okta_domain = <<>> /\ outs = <<>>
    /\ label = <<>> /\ normalized = NoName
    /\ NoFetch

NextPolicy ==
    \/ password_policy
    \/ mfa_policy
    \/ group_data_blocks

SpecPolicy == InitPolicy /\ [][NextPolicy]_vars

TypeOK ==
    /\ pc \in {"request", "returned", "raised", "call"}
    /\ retry_count \in 0..DefaultRetryCount
    /\ endpoint \in 0..MaxItems

\* ---------------------------------------------------------------- helpers
RECURSIVE Count(_, _)
Count(seq, x) ==
    IF seq = <<>> THEN 0
    ELSE (IF Head(seq) = x THEN 1 ELSE 0) + Count(Tail(seq), x)

Last(seq) == seq[Len(seq)]

Max(a, b) == IF a > b THEN a ELSE b

\* The list a get_api_data loop returns when every request is answered 200
\* at once: the loop body applied page after page.
RECURSIVE Run200(_, _, _, _)
Run200(f, pages, k, a) ==
    IF k = NoUrl THEN a
    ELSE IF f = "fetch_apps" /\ pages[k] = <<>> THEN a
    ELSE Run200(f, pages, Page200(pages, k).next, a \o pages[k])

\* --------------------------------------------------------------- claims
\* C1: when every page answers 200, each admin-roles fetch returns exactly
\* the items of all pages, each once, in server order.
C1_AllItemsInOrder ==
    (fn \in AdminFns /\ pc = "returned" /\ seen = {200})
        => result = Flatten(server)

\* C2: an upstream error (neither 200 nor 429) on page k >= 2 ends the loop
\* without an exception, and the fetch returns exactly the items of pages
\* 1..k-1; page k stays the last page requested.
C2_PartialOnUpstreamError ==
    (fn \in AdminFns /\ lastResp.status = 500 /\ Len(requested) >= 1)
        => /\ pc = "returned"
           /\ result = Prefix(server, Last(requested) - 1)
           /\ endpoint = Last(requested)

C2_Witness ==
    /\ fn \in AdminFns /\ lastResp.status = 500 /\ pc = "returned"
    /\ Last(requested) = 2 /\ Len(server) = 3
    /\ result # <<>> /\ result # Flatten(server)

\* C3: in the get_api_data loops a 429 is followed by exactly one sleep and
\* a retry of the same URL, and when every 429 was recovered by a 200 the
\* list returned equals the list of the run without any 429.
C3_RetrySameUrlSameResult ==
    fn \in AdminApiDataFns =>
        /\ lastResp.status = 429 => Len(slept) = 1
        /\ (lastResp.status = 429 /\ pc = "request")
              => endpoint = Last(requested)
        /\ (pc = "returned" /\ seen = {200, 429} /\ lastResp.status = 200)
              => result = Run200(fn, server, 1, <<>>)

C3_Witness ==
    /\ fn \in AdminApiDataFns /\ pc = "returned"
    /\ seen = {200, 429} /\ lastResp.status = 200
    /\ Len(requested) > Len(server) /\ Len(server) >= 2
    /\ result = Flatten(server) /\ Len(result) >= 2

\* C4: when an endpoint answers 429 to every request, get_api_data sends
\* retry_count + 1 requests to it and returns None; the loop ends and the
\* fetch returns the items of the earlier pages.
C4_ExhaustedRetries ==
    (fn \in AdminApiDataFns /\ lastResp.status = 429 /\ pc # "request")
        => /\ pc = "returned"
           /\ Count(requested, Last(requested)) = DefaultRetryCount + 1
           /\ result = Prefix(server, Last(requested) - 1)

C4_Witness ==
    /\ fn \in AdminApiDataFns /\ lastResp.status = 429 /\ pc = "returned"
    /\ Last(requested) >= 2 /\ result # <<>>

\* C5: after a 429 the sleep is max(1 second, reset - now) when the reset
\* header is present and 60 seconds when it is absent.
C5_SleepIsMaxOfOneAndDiff ==
    (fn \in AdminApiDataFns /\ lastResp.status = 429)
        => slept = <<IF lastResp.reset.present
                     THEN Max(1 * TicksPerSecond, lastResp.reset.diff)
                     ELSE 60 * TicksPerSecond>>

\* C6: in the loops that call requests.get directly a 429 leads to a wait
\* and a retry of the same endpoint, not to the end of the loop.
C6_DirectLoopsRetry429 ==
    (fn \in AdminDirectFns \cup GroupGenFns /\ lastResp.status = 429)
        => /\ pc = "request"
           /\ endpoint = Last(requested)
           /\ Len(slept) = 1

\* C7 (as stated): after a 429 at most one further request goes to the
\* same endpoint.
C7_RetriesOnce ==
    \A u \in 1..MaxPages : Count(requested, u) <= 2

\* C7 (amended): an endpoint is requested at most retry_count + 1 times,
\* that is at most retry_count (3) times after its first 429.
C7_RetriesAtMostRetryCount ==
    \A u \in 1..MaxPages : Count(requested, u) <= DefaultRetryCount + 1

C7_Witness ==
    /\ fn \in AdminApiDataFns /\ pc = "returned" /\ lastResp.status = 200
    /\ Count(requested, 1) = DefaultRetryCount + 1

\* C8: a transport failure is the last request of the loop: it is not
\* retried and nothing is returned, the exception leaves the function.
C8_TransportIsHardFailure ==
    /\ 0 \in seen => (lastResp.status = 0 /\ pc = "raised")
    /\ pc = "raised" => lastResp.status = 0

C8_Witness ==
    /\ pc = "raised" /\ lastResp.status = 0
    /\ Len(requested) >= 2 /\ acc # <<>>

\* C9: an upstream error in a collection fetch of the admin-roles generator,
\* the first page included, never makes main() abort: it still runs to its
\* end and writes the output file.
C9_MainCompletesAfterUpstreamError ==
    lastResp.status = 500 => stage # "KeyError"

\* The name table substitute_member consults for a kind.
TableOf(kind) ==
    IF kind = "groups" THEN group_map
    ELSE IF kind = "users" THEN user_map
    ELSE app_map.map

IsReference(out, kind, id, extra) ==
    /\ out = Reference(kind, OpenOf(kind), TableOf(kind)[id]) \o extra
    /\ Head(id) \notin Tokens(out)

\* C10 (as stated): for groups, users and apps alike, a URL ending in
\* /api/v1/{kind}/{id} plus an optional trailing segment, with id in the
\* kind's name table, becomes the reference to the named object's id with
\* the trailing segment appended, and the raw id is gone.
C10_ReferenceForEveryKind ==
    \A h \in Hosts, k \in Kinds, id \in Ids, e \in Trailing :
        (outs # <<>> /\ member = IdUrl(h, k, id, e)
            /\ (k = "apps" => app_map.given) /\ id \in DOMAIN TableOf(k))
        => IsReference(outs[1], k, id, e)

\* C10 (amended): the same for groups and apps; for users only when the id
\* is the last segment. A users URL with a trailing segment is returned as
\* a literal with its quotes escaped.
C10_ReferenceGroupsAppsAndBareUsers ==
    \A h \in Hosts, k \in Kinds, id \in Ids, e \in Trailing :
        (outs # <<>> /\ member = IdUrl(h, k, id, e)
            /\ (k = "apps" => app_map.given) /\ id \in DOMAIN TableOf(k))
        => IF k = "users" /\ e # <<>>
           THEN outs[1] = Replace(member, <<Quote>>, <<EscapedQuote>>)
           ELSE IsReference(outs[1], k, id, e)

C10_Witness ==
    /\ outs # <<>>
    /\ member = IdUrl(<<"https://", "dom">>, "groups", <<"g1">>,
                      <<Slash, "users">>)
    /\ <<"g1">> \in DOMAIN group_map
    /\ "${data.okta_group." \in Tokens(outs[1])
    /\ EndsWith(outs[1], <<".id}", Slash, "users">>)

\* The value with each double quote replaced by an escaped one, and nothing
\* else changed.
EscapeQuotes(s) ==
    [i \in 1..Len(s) |-> IF s[i] = Quote THEN EscapedQuote ELSE s[i]]

\* C11: a URL of a known collection whose id is not in the name table, and
\* a value of no recognized shape, come back as the original value with
\* every double quote escaped and nothing replaced by a reference.
C11_LiteralWhenUnknown ==
    outs # <<>> =>
        /\ \A h \in Hosts, k \in Kinds, id \in Ids, e \in Trailing :
              (member = IdUrl(h, k, id, e) /\ id \notin DOMAIN TableOf(k))
                  => outs[1] = EscapeQuotes(member)
        /\ member \in Unrecognized => outs[1] = EscapeQuotes(member)

C11_Witness ==
    /\ outs # <<>>
    /\ member = IdUrl(<<"https://", "dom">>, "groups", <<"z", Quote>>,
                      <<Slash, "users">>)
    /\ <<"g1">> \in DOMAIN group_map
    /\ EscapedQuote \in Tokens(outs[1])
    /\ Quote \notin Tokens(outs[1])
    /\ Len(outs[1]) = Len(member)

\* C12: every URL with a query string, of any collection and with any
\* query, comes back with its scheme and host replaced by the organization
\* URL reference, its path and query kept and every double quote escaped.
C12_HostReplacedInEveryQueryUrl ==
    \A h \in Hosts, k \in Kinds, q \in Queries :
        (outs # <<>> /\ member = h \o ApiPath(k) \o q)
            => outs[1] = <<OrgUrl>> \o ApiPath(k) \o EscapeQuotes(q)

\* C13: a collection root comes back as the fixed base reference of the
\* collection whatever the name tables hold, and so does a URL that ends
\* in a collection root after a group id that is in the table: the roots
\* are tried before the id patterns.
C13_BareRootIsFixedReference ==
    outs # <<>> =>
        \A h \in Hosts, k \in Kinds :
            (member = h \o ApiPath(k) \/ member = RootAfterId(h, k))
                => outs[1] = <<OrgUrl>> \o ApiPath(k)

C13_Witness ==
    /\ outs # <<>>
    /\ member = RootAfterId(<<"https://", "dom">>, "users")
    /\ <<"g1">> \in DOMAIN group_map
    /\ outs[1] = <<OrgUrl>> \o ApiPath("users")

\* C14: no call raises: whatever the member and the tables, an app table
\* that is None or empty included, the call returns a string.
C14_NeverRaises ==
    \A i \in 1..Len(outs) : outs[i] # TypeError

C14_Witness ==
    /\ outs # <<>>
    /\ member = IdUrl(<<"https://", "dom">>, "apps", <<"a1">>,
                      <<Slash, "users">>)
    /\ ~app_map.given
    /\ outs[1] = member

\* What is left of a label character by character: a space gives an
\* underscore, a character whose lower case is in [a-z0-9_] gives that
\* lower case, any other character gives nothing.
RECURSIVE Kept(_)
Kept(s) ==
    IF s = <<>> THEN <<>>
    ELSE (IF Head(s) = " " THEN <<"_">>
          ELSE IF InClass(Lower(Head(s))) THEN <<Lower(Head(s))>>
          ELSE <<>>) \o Kept(Tail(s))

\* C16 (as stated): the name is the lower-case label with every maximal
\* run of characters outside [a-z0-9_] replaced by exactly one underscore,
\* and an underscore in front when that would start with a digit.
C16_RunsBecomeOneUnderscore ==
    normalized # NoName => normalized = normalize_collapsing_runs(label)

\* C16 (amended): every space becomes one underscore, every other
\* character outside [a-z0-9_] is deleted, and an underscore is put in
\* front of a leading digit; the name has only characters of [a-z0-9_] and
\* no leading digit, and '  Admin Team!! ' gives '__admin_team_'.
C16_SpacesReplacedOthersDeleted ==
    normalized # NoName =>
        /\ normalized = IF Kept(label) # <<>> /\ Head(Kept(label)) \in Digits
                        THEN <<"_">> \o Kept(label) ELSE Kept(label)
        /\ \A i \in 1..Len(normalized) : InClass(normalized[i])
        /\ normalized # <<>> => Head(normalized) \notin Digits
        /\ label = AdminTeam =>
             normalized = <<"_", "_", "a", "d", "m", "i", "n", "_", "t", "e",
                            "a", "m", "_">>

C16_Witness ==
    /\ label = <<"1", " ", "!">>
    /\ normalized = <<"_", "1", "_">>

\* C17: an item with no label, or with a label that normalizes to the
\* empty string, is named by a placeholder made from its id: no block has
\* an empty name, and main() never ends on a missing label.
C17_PlaceholderForMissingLabel ==
    /\ stage \notin {"AttributeError", "KeyError: 'label'"}
    /\ \A n \in 1..Len(written) :
          written[n].id # 0 => written[n].name # <<>>

\* C18: when main() has run to its end, every reference
\* data.okta_group.<name>.id or data.okta_user.<name>.id in a block it
\* wrote has a data block of that type with exactly that name.
C18_ReferencesAreDeclared ==
    stage = "done" =>
        \A n \in 1..Len(written) : \A ref \in written[n].refs :
            ref[1] \in {"data.okta_group", "data.okta_user"}
                => \E m \in 1..Len(written) :
                      /\ written[m].sec = ref[1]
                      /\ written[m].name = ref[2]

\* The collection whose items the blocks of a Terraform type are written
\* for.
KindOfType(type) ==
    IF type = "okta_admin_role_custom" THEN "roles" ELSE "resource_sets"

\* The positions of the role blocks and resource set blocks written.
NamedByLabel ==
    {n \in 1..Len(written) :
        written[n].sec \in {"okta_admin_role_custom", "okta_resource_set"}}

\* C19: the name of a role block or resource set block is made from the
\* label alone: two items whose labels normalize to the same text get the
\* same name, whatever their ids, and nothing is added to tell them apart.
C19_NameIsLabelAlone ==
    \A n \in NamedByLabel, m \in NamedByLabel :
        (/\ n < m
         /\ written[m].sec = written[n].sec
         /\ normalize_resource_name(
                LabelOf(KindOfType(written[n].sec), written[n].id).text)
            = normalize_resource_name(
                LabelOf(KindOfType(written[m].sec), written[m].id).text))
        => written[n].name = written[m].name

C19_Witness ==
    /\ stage = "done"
    /\ \E n \in 1..Len(written), m \in 1..Len(written) :
          /\ written[n].sec = "okta_resource_set"
          /\ written[m].sec = "okta_resource_set"
          /\ written[n].id # written[m].id
          /\ LabelOf("resource_sets", written[n].id)
             # LabelOf("resource_sets", written[m].id)
          /\ written[n].name = written[m].name

\* The pages fetch_okta_groups got with status 200.
Fetched ==
    IF lastResp.status = 200 THEN Len(requested) ELSE Len(requested) - 1

\* C20 (as stated): whatever the number of pages, the list returned holds
\* only groups of type OKTA_GROUP and every such group of every page
\* fetched, in server order.
C20_EveryOktaGroupOfPagesFetched ==
    (fn = "fetch_okta_groups" /\ pc = "returned") =>
        /\ \A i \in 1..Len(result) : gtype[result[i]] = "OKTA_GROUP"
        /\ \A x \in Range(Prefix(server, Fetched)) :
              gtype[x] = "OKTA_GROUP" => x \in Range(result)
        /\ \A i \in 1..Len(result), j \in 1..Len(result) :
              i < j => result[i] < result[j]

\* C20 (amended): the list returned holds only groups of type OKTA_GROUP;
\* when every page answered 200 it holds every such group of every page of
\* the collection, each once and in server order, and when a page answered
\* another status it is empty.
C20_AllOktaGroupsOrNothing ==
    (fn = "fetch_okta_groups" /\ pc = "returned") =>
        /\ \A i \in 1..Len(result) : gtype[result[i]] = "OKTA_GROUP"
        /\ \A i \in 1..Len(result), j \in 1..Len(result) :
              i < j => result[i] < result[j]
        /\ IF lastResp.status = 200
           THEN /\ Len(requested) = Len(server)
                /\ \A x \in Range(Flatten(server)) :
                      gtype[x] = "OKTA_GROUP" => x \in Range(result)
           ELSE result = <<>>

C20_Witness ==
    /\ fn = "fetch_okta_groups" /\ pc = "returned"
    /\ lastResp.status = 200
    /\ Len(server) = 3 /\ Len(requested) = 3
    /\ Len(result) >= 2
    /\ Len(result) < Len(Flatten(server))

\* The fetch functions that keep nothing of a fetch that failed.
AllOrNothingFns == GroupGenFns \cup OldMainFns

\* C21: in fetch_okta_groups, fetch_okta_group_rules and paginated_get a
\* status other than 200 on any page ends the fetch with the empty list:
\* the two loops return [], paginated_get raises and main() puts [] in
\* place of the collection; the items of the earlier pages are not
\* returned.
C21_NothingAfterNon200 ==
    (fn \in AllOrNothingFns /\ lastResp.status \in {429, 500})
        => /\ pc = "returned"
           /\ result = <<>>
           /\ endpoint = Last(requested)

C21_Witness ==
    /\ fn = "paginated_get" /\ pc = "returned"
    /\ lastResp.status = 500
    /\ Last(requested) = 3
    /\ acc = Prefix(server, 2) /\ Len(acc) >= 2
    /\ result = <<>>

\* C22: against a server that answers 200 to every request and whose
\* chain of next links has P pages, every fetch loop sends exactly P
\* requests, one to each page in the order of the chain and none twice,
\* asks only for the URL the last page supplied, and ends when a page has
\* no next link.
C22_OneRequestPerPage ==
    (fn \in FetchFns /\ seen \subseteq {200}) =>
        /\ requested = [k \in 1..Len(requested) |-> k]
        /\ pc = "request" => endpoint = Len(requested) + 1
        /\ pc = "returned" => Len(requested) = Len(server)
        /\ (requested # <<>> /\ lastResp.next = NoUrl) => pc = "returned"

\* C24: fetch_apps ends at a page answered 200 with an empty list as it
\* ends at a failed request, next link or not, and returns what it has, so
\* that no later page is requested; fetch_all_groups and fetch_all_users
\* go on to the next link of an empty page.
C24_EmptyPageEndsFetchApps ==
    (lastResp.status = 200 /\ lastResp.items = <<>>) =>
        /\ fn = "fetch_apps" =>
              /\ pc = "returned"
              /\ result = acc
              /\ result = Prefix(server, Last(requested) - 1)
        /\ (fn \in AdminDirectFns /\ lastResp.next # NoUrl) =>
              /\ pc = "request"
              /\ endpoint = lastResp.next

C24_Witness ==
    /\ fn = "fetch_apps" /\ pc = "returned"
    /\ lastResp.status = 200 /\ lastResp.items = <<>>
    /\ lastResp.next # NoUrl
    /\ Last(requested) = 2 /\ Len(server) = 3
    /\ result # <<>> /\ server[3] # <<>>

\* The Terraform types of the resource blocks main() writes.
ResourceTypes ==
    {"okta_group_role", "okta_user_admin_roles", "okta_admin_role_custom",
     "okta_resource_set", "okta_admin_role_custom_assignments"}

\* The positions of the blocks of a type in the output.
Emitted(type) == {n \in 1..Len(written) : written[n].sec = type}

\* C23: when main() has run to its end, no resource address (type and
\* name) is declared twice in the output, whichever step wrote the block:
\* debug_with_pandas or main() after it.
C23_AddressDeclaredOnce ==
    stage = "done" =>
        \A type \in ResourceTypes : \A n \in Emitted(type), m \in Emitted(type) :
            n < m => written[n].name # written[m].name

\* The member a principal becomes in a custom assignment block.
MemberOf(kind, p) ==
    substitute_member(MemberHref(kind, p), group_id_to_normalized,
                      user_id_to_normalized, NoAppMap, <<>>)

\* The principals of a kind holding a CUSTOM assignment with a key.
HoldersOf(by, key) ==
    {p \in DOMAIN by :
        \E k \in 1..Len(by[p]) :
            /\ by[p][k].type = "CUSTOM"
            /\ <<by[p][k].role, by[p][k].resource_set>> = key}

CustomKeys ==
    {<<a.role, a.resource_set>> :
        a \in {b \in UNION {Range(group_roles_by_group[g]) :
                              g \in DOMAIN group_roles_by_group}
                       \cup UNION {Range(user_roles_by_user[u]) :
                                   u \in DOMAIN user_roles_by_user} :
                  b.type = "CUSTOM"}}

C29_ValidTerraformName ==
    sanitized # NoName =>
        /\ \A i \in 1..Len(sanitized) : InNameClass(sanitized[i])
        /\ Len(sanitized)
           = Cardinality({i \in 1..Len(label) : InNameClass(Lower(label[i]))})
             + Cardinality({i \in 1..Len(label) :
                              /\ ~InNameClass(Lower(label[i]))
                              /\ i > 1 => InNameClass(Lower(label[i - 1]))})
        /\ sanitized # <<>> => Head(sanitized) \notin Digits

\* The ids of the roles of a list, and the places of an id in a list.
IdsOf(list) == {list[k].id : k \in 1..Len(list)}
PlacesOf(list, id) == {k \in 1..Len(list) : list[k].id = id}

\* C26 (as stated): after the merge roles_dict has one entry for each role
\* id of either list and no other; an id of both lists keeps the new IAM
\* role object with source 'new+legacy', an id of the legacy list alone
\* holds the legacy object with source 'legacy'.
C26_OneEntryPerRoleId ==
    (fn = "old_main" /\ pc = "returned") =>
        /\ DOMAIN roles_dict = IdsOf(new_iam_roles) \cup IdsOf(legacy_roles)
        /\ \A id \in IdsOf(new_iam_roles) \cap IdsOf(legacy_roles) :
              /\ roles_dict[id].role.of = "new"
              /\ roles_dict[id].source = <<"new", "+legacy">>
        /\ \A id \in IdsOf(legacy_roles) \ IdsOf(new_iam_roles) :
              /\ roles_dict[id].role.of = "legacy"
              /\ roles_dict[id].source = <<"legacy">>

\* C26 (amended): one entry for each role id of either list and no other.
\* An id of the new list keeps the last new IAM object with that id, and
\* its source is 'new' followed by one '+legacy' for each legacy role with
\* that id; an id of the legacy list alone holds the first legacy object
\* with that id, and its source is 'legacy' followed by one '+legacy' for
\* each further legacy role with that id. With no id twice in the legacy
\* list these are 'new', 'new+legacy' and 'legacy'.
C26_OneEntryPerIdSourceCountsLegacy ==
    (fn = "old_main" /\ pc = "returned") =>
        /\ DOMAIN roles_dict = IdsOf(new_iam_roles) \cup IdsOf(legacy_roles)
        /\ \A id \in IdsOf(new_iam_roles) :
              /\ roles_dict[id].role
                 = new_iam_roles[Max(0, CHOOSE k \in PlacesOf(new_iam_roles, id) :
                     \A j \in PlacesOf(new_iam_roles, id) : j <= k)]
              /\ roles_dict[id].source
                 = <<"new">> \o [n \in 1..Cardinality(PlacesOf(legacy_roles, id))
                                   |-> "+legacy"]
        /\ \A id \in IdsOf(legacy_roles) \ IdsOf(new_iam_roles) :
              /\ roles_dict[id].role
                 = legacy_roles[Min(PlacesOf(legacy_roles, id))]
              /\ roles_dict[id].source
                 = <<"legacy">>
                   \o [n \in 1..(Cardinality(PlacesOf(legacy_roles, id)) - 1)
                         |-> "+legacy"]

C26_Witness ==
    /\ fn = "old_main" /\ pc = "returned"
    /\ IdsOf(new_iam_roles) = {"cr1"}
    /\ IdsOf(legacy_roles) = {"cr1", "r3"}
    /\ roles_dict["cr1"].source = <<"new", "+legacy">>
    /\ roles_dict["cr1"].role.of = "new"
    /\ roles_dict["r3"].source = <<"legacy">>

\* The resources of a kind that carry a name attribute, by place.
Named(kind) ==
    {k \in 1..Len(content) :
        content[k].kind = kind /\ content[k].name # <<>>}

\* C27 (as stated): a moved block is emitted for the name of a preview
\* resource exactly when a prod resource has the identical name attribute;
\* each block goes from a preview address to the prod address with that
\* same name, and no two blocks are for the same name.
C27_MovedIffIdenticalName ==
    (fn = "generate_move_blocks" /\ pc = "returned") =>
        /\ \A k \in Named("preview") :
              (\E b \in 1..Len(output_lines) :
                  content[output_lines[b].from.id].name = content[k].name)
              <=> (\E j \in Named("prod") :
                      content[j].name = content[k].name)
        /\ \A b \in 1..Len(output_lines) :
              /\ output_lines[b].from.kind = "preview"
              /\ output_lines[b].to.kind = "prod"
              /\ content[output_lines[b].to.id].name
                 = content[output_lines[b].from.id].name
        /\ \A b, c \in 1..Len(output_lines) :
              content[output_lines[b].from.id].name
              = content[output_lines[c].from.id].name => b = c

\* The name the generator compares: the attribute up to its first double
\* quote, without the blanks around it.
Compared(k) ==
    LET upto == CHOOSE n \in 0..Len(content[k].name) :
                    /\ \A i \in 1..n : content[k].name[i] # Quote
                    /\ n < Len(content[k].name) => content[k].name[n + 1] = Quote
        first == CHOOSE i \in 1..(upto + 1) :
                    /\ \A j \in 1..(i - 1) : content[k].name[j] = " "
                    /\ i <= upto => content[k].name[i] # " "
        last  == CHOOSE i \in 0..upto :
                    /\ \A j \in (i + 1)..upto : content[k].name[j] = " "
                    /\ i >= 1 => content[k].name[i] # " "
    IN  IF first > last THEN <<>> ELSE SubSeq(content[k].name, first, last)

\* The last resource of a kind with the compared name of resource k.
LastNamed(kind, k) ==
    CHOOSE j \in Named(kind) :
        /\ Compared(j) = Compared(k)
        /\ \A i \in Named(kind) : Compared(i) = Compared(k) => i <= j

\* C27 (amended): a moved block is emitted for the compared name of a
\* preview resource exactly when a prod resource has the same compared
\* name; each block goes from the last preview resource with that compared
\* name to the last prod resource with it, and no two blocks are for the
\* same compared name.
C27_MovedIffSameComparedName ==
    (fn = "generate_move_blocks" /\ pc = "returned") =>
        /\ \A k \in Named("preview") :
              (\E b \in 1..Len(output_lines) :
                  Compared(output_lines[b].from.id) = Compared(k))
              <=> (\E j \in Named("prod") : Compared(j) = Compared(k))
        /\ \A b \in 1..Len(output_lines) :
              /\ output_lines[b].from.id \in Named("preview")
              /\ output_lines[b].from
                 = FullResource(content,
                                LastNamed("preview", output_lines[b].from.id))
              /\ output_lines[b].to
                 = FullResource(content,
                                LastNamed("prod", output_lines[b].from.id))
        /\ \A b, c \in 1..Len(output_lines) :
              Compared(output_lines[b].from.id)
              = Compared(output_lines[c].from.id) => b = c

\* Two preview resources and a prod resource with one name, blanks apart.
C27_Witness ==
    /\ fn = "generate_move_blocks" /\ pc = "returned"
    /\ Len(content) = 3
    /\ content[1] = [kind |-> "preview", name |-> <<"A">>]
    /\ content[2] = [kind |-> "prod", name |-> <<"A">>]
    /\ content[3] = [kind |-> "preview", name |-> <<"A", " ">>]
    /\ Len(output_lines) = 1
    /\ output_lines[1].from.id = 3 /\ output_lines[1].to.id = 2

\* The names referenced in the groups_included of the emitted blocks.
ReferencedGroupNames ==
    UNION {{resource_blocks[b].groups_included[i].name :
               i \in 1..Len(resource_blocks[b].groups_included)} :
              b \in 1..Len(resource_blocks)}

\* C28: when a policy generator has written its data blocks, the okta_group
\* data blocks are exactly the groups referenced in the groups_included of
\* the emitted policies, one data block for each.
C28_DataBlocksAreReferencedGroups ==
    (fn \in PolicyFns /\ pc = "returned") =>
        /\ {data_blocks[d].name : d \in 1..Len(data_blocks)}
           = ReferencedGroupNames
        /\ \A d, f \in 1..Len(data_blocks) :
              data_blocks[d].name = data_blocks[f].name => d = f

\* Two password policies include group 1, one of them twice, and one
\* includes group 2: two data blocks, each referenced.
C28_Witness ==
    /\ fn = "policy_password" /\ pc = "returned"
    /\ Len(policies) = 2
    /\ policies[1] = [type |-> "PASSWORD", system |-> TRUE,
                       include |-> <<2, 1>>]
    /\ policies[2] = [type |-> "PASSWORD", system |-> FALSE,
                       include |-> <<1, 1>>]
    /\ Len(resource_blocks) >= 2
    /\ Len(data_blocks) = 2
    /\ data_blocks[1].id = 1 /\ data_blocks[2].id = 2
    /\ ReferencedGroupNames = {GroupName(1), GroupName(2)}

====
